---- MODULE Spec2Model ----
(***************************************************************************)
(* Model of the spreadsheet replication and GTT reconciliation scripts of  *)
(* kite-gtt-demo: data_teleporter.py (BANK_NEW -> BANK_FINAL), the BANK_NEW *)
(* upsert of nse_data_etl.py and the GTT instruction processor of extra/.   *)
(*                                                                         *)
(* A cell is a sequence of one-character strings (so that strip() and      *)
(* upper() are computed, not assumed); a sheet is the sequence of its grid *)
(* rows up to the last row holding data, a row is the sequence of its      *)
(* cells A.., and the grid row count is kept separately.                   *)
(***************************************************************************)
EXTENDS Integers, Sequences, FiniteSets, TLC

(* ------------------------------------------------------------------ *)
(* Bounds of the model                                                  *)
(* ------------------------------------------------------------------ *)
MaxInc == 2
MaxNew == 2
MaxFinal == 2
MaxRuns == 2
MaxFailCall == 1
MaxFailPage == 1
SpareRuns == 3
MaxScanRows == 3
MaxScanKeys == 2
MaxPageSize == 2
MaxUpdRow == 4
MaxUpd == 3
MaxBatch == 2
MaxDataRows == 2
MaxEtlSrc == 2
MaxEtlNew == 1
MaxEtlRuns == 2
MaxRetryEnv == 2
MaxSymbols == 3
MaxWorkers == 2
MaxInstrRows == 3
MaxCfgBatch == 2
MaxPad == 1
MaxUploadRows == 25

(* ------------------------------------------------------------------ *)
(* Program constants of data_teleporter.py                              *)
(* ------------------------------------------------------------------ *)
DEFAULT_PAGE_SIZE == 10000
DEFAULT_BATCH_UPDATE_SIZE == 500
DEFAULT_APPEND_CHUNK == 500
ROW_BUFFER == 100
SAMPLE_VERIFICATION_COUNT == 100
MAX_RETRIES == 5
TAIL_WINDOW == 200
LAST_COL == 7
SHEET_COLS == 9

(* ------------------------------------------------------------------ *)
(* Generic helpers                                                      *)
(* ------------------------------------------------------------------ *)
Min2(a, b) == IF a <= b THEN a ELSE b

Max2(a, b) == IF a >= b THEN a ELSE b

SetMin(S) == CHOOSE x \in S : \A y \in S : x <= y

SetMax(S) == CHOOSE x \in S : \A y \in S : x >= y

Range(s) == {s[i] : i \in 1..Len(s)}

RECURSIVE SortedSeq(_)
SortedSeq(S) ==
    IF S = {} THEN <<>> ELSE <<SetMin(S)>> \o SortedSeq(S \ {SetMin(S)})

SeqsUpTo(S, n) == UNION {[1..k -> S] : k \in 0..n}

(* ------------------------------------------------------------------ *)
(* Strings: str.strip() and str.upper()                                 *)
(* ------------------------------------------------------------------ *)
Blank == <<>>

RECURSIVE LStrip(_)
LStrip(s) ==
    IF s = <<>> THEN <<>>
    ELSE IF Head(s) = " " THEN LStrip(Tail(s)) ELSE s

RECURSIVE RStrip(_)
RStrip(s) ==
    IF s = <<>> THEN <<>>
    ELSE IF s[Len(s)] = " " THEN RStrip(SubSeq(s, 1, Len(s) - 1)) ELSE s

Strip(s) == RStrip(LStrip(s))

UpperChar(c) ==
    CASE c = "a" -> "A" [] c = "b" -> "B" [] c = "c" -> "C" [] c = "d" -> "D"
      [] c = "e" -> "E" [] c = "g" -> "G" [] c = "i" -> "I" [] c = "k" -> "K"
      [] c = "l" -> "L" [] c = "p" -> "P" [] c = "r" -> "R" [] c = "s" -> "S"
      [] c = "t" -> "T" [] c = "u" -> "U" [] c = "w" -> "W" [] c = "y" -> "Y"
      [] OTHER -> c

Upper(s) == [i \in 1..Len(s) |-> UpperChar(s[i])]

(* ------------------------------------------------------------------ *)
(* The worksheet as gspread presents it                                 *)
(* ------------------------------------------------------------------ *)
RECURSIVE TrimRow(_)
TrimRow(row) ==
    IF row = <<>> THEN <<>>
    ELSE IF row[Len(row)] = Blank THEN TrimRow(SubSeq(row, 1, Len(row) - 1))
    ELSE row

RECURSIVE TrimRows(_)
TrimRows(rows) ==
    IF rows = <<>> THEN <<>>
    ELSE IF rows[Len(rows)] = <<>> THEN TrimRows(SubSeq(rows, 1, Len(rows) - 1))
    ELSE rows

PadRow(row, n) == [j \in 1..n |-> IF j <= Len(row) THEN row[j] ELSE Blank]

BlankRow == PadRow(<<>>, SHEET_COLS)

\* ws.get("<c1><r1>:<c2><r2>"): the cells of the range, trailing empty cells
\* of each row and trailing empty rows omitted
SheetGet(sheet, r1, r2, c1, c2) ==
    LET hi == Min2(r2, Len(sheet))
    IN  IF hi < r1 THEN <<>>
        ELSE TrimRows([k \in 1..(hi - r1 + 1) |->
                          TrimRow(SubSeq(sheet[r1 + k - 1], c1, c2))])

\* ws.update("<c1><r1>:...", values): writes the cells that values supplies and
\* leaves every other cell of the range as it was
SheetUpdate(sheet, r1, c1, values) ==
    LET last == Max2(Len(sheet), r1 + Len(values) - 1)
        old(i) == IF i <= Len(sheet) THEN sheet[i] ELSE BlankRow
    IN  [i \in 1..last |->
            IF i >= r1 /\ i < r1 + Len(values)
            THEN [j \in 1..SHEET_COLS |->
                    IF j >= c1 /\ j < c1 + Len(values[i - r1 + 1])
                    THEN values[i - r1 + 1][j - c1 + 1]
                    ELSE old(i)[j]]
            ELSE old(i)]

\* ws.append_rows(rows): the rows are written below the last row of the table
SheetAppend(sheet, rows) ==
    sheet \o [k \in 1..Len(rows) |-> PadRow(rows[k], SHEET_COLS)]

\* ws.delete_rows(r)
SheetDelete(sheet, r) ==
    IF r > Len(sheet) THEN sheet
    ELSE SubSeq(sheet, 1, r - 1) \o SubSeq(sheet, r + 1, Len(sheet))

(* ------------------------------------------------------------------ *)
(* data_teleporter.py: helpers                                          *)
(* ------------------------------------------------------------------ *)
Cell(row, j) == IF Len(row) >= j THEN row[j] ELSE Blank

normalize_key(a, b) == <<Strip(a), Strip(b)>>

RowKey(row) == normalize_key(Cell(row, 1), Cell(row, 2))

RECURSIVE GroupLoop(_, _, _, _)
GroupLoop(rest, start, prev, groups) ==
    IF rest = <<>> THEN Append(groups, <<start, prev>>)
    ELSE IF Head(rest) = prev + 1
         THEN GroupLoop(Tail(rest), start, Head(rest), groups)
         ELSE GroupLoop(Tail(rest), Head(rest), Head(rest),
                        Append(groups, <<start, prev>>))

_group_contiguous(sorted_indices) ==
    IF sorted_indices = <<>> THEN <<>>
    ELSE GroupLoop(Tail(sorted_indices), sorted_indices[1], sorted_indices[1], <<>>)

rows_equal(a, b) ==
    LET maxlen == Max2(Len(a), Len(b))
    IN  \A i \in 1..maxlen : Strip(Cell(a, i)) = Strip(Cell(b, i))

HeaderLike(first_row) ==
    \E j \in 1..Len(first_row) :
        Upper(Strip(first_row[j])) \in {<<"D", "A", "T", "E">>,
                                        <<"S", "Y", "M", "B", "O", "L">>}

RECURSIVE IncKeyLoop(_, _)
IncKeyLoop(rows, keys) ==
    IF rows = <<>> THEN keys
    ELSE LET k == RowKey(Head(rows))
         IN  IncKeyLoop(Tail(rows),
                        IF k[1] # <<>> \/ k[2] # <<>> THEN Append(keys, k) ELSE keys)

read_inc_keys(sheet) ==
    LET vals == SheetGet(sheet, 1, Len(sheet), 1, 2)
    IN  IF vals = <<>> THEN <<>>
        ELSE IncKeyLoop(IF HeaderLike(vals[1]) THEN Tail(vals) ELSE vals, <<>>)

(* ------------------------------------------------------------------ *)
(* data_teleporter.py: domain functions                                 *)
(* ------------------------------------------------------------------ *)
EmptyMap == [x \in {} |-> <<>>]

\* the for loop over one page of find_keys_in_sheet_paged
RECURSIVE ScanPage(_, _, _, _)
ScanPage(page_vals, idx, needed, found) ==
    IF page_vals = <<>> THEN [needed |-> needed, found |-> found]
    ELSE LET k == RowKey(Head(page_vals))
         IN  IF k \in needed
             THEN ScanPage(Tail(page_vals), idx + 1, needed \ {k},
                           IF k \in DOMAIN found
                           THEN [found EXCEPT ![k] = Append(@, idx)]
                           ELSE found @@ (k :> <<idx>>))
             ELSE ScanPage(Tail(page_vals), idx + 1, needed, found)

\* the while loop of find_keys_in_sheet_paged; failed is the set of the page
\* numbers whose ws.get raises (the page then counts as empty); pages records
\* the ranges that were requested
RECURSIVE PagedLoop(_, _, _, _, _, _, _, _)
PagedLoop(sheet, total_rows, page_size, failed, start, needed, found, pages) ==
    IF ~(start <= total_rows /\ needed # {})
    THEN [found |-> found, pages |-> pages]
    ELSE LET end == Min2(total_rows, start + page_size - 1)
             page_vals == IF (Len(pages) + 1) \in failed THEN <<>>
                          ELSE SheetGet(sheet, start, end, 1, 2)
             sc == ScanPage(page_vals, start, needed, found)
         IN  IF sc.needed = {}
             THEN [found |-> sc.found, pages |-> Append(pages, <<start, end>>)]
             ELSE PagedLoop(sheet, total_rows, page_size, failed, end + 1,
                            sc.needed, sc.found, Append(pages, <<start, end>>))

\* the rows of a page numbered from start + 1 instead of start
find_keys_row_off_by_one(sheet, total_rows, keys_set, page_size, failed) ==
    LET r == PagedLoop(sheet, total_rows, page_size, failed, 1, Range(keys_set), EmptyMap, <<>>)
    IN  [found |-> [k \in DOMAIN r.found |->
                      [n \in 1..Len(r.found[k]) |-> r.found[k][n] + 1]],
         pages |-> r.pages]

\* the loop without its break: every page up to total_rows is read
RECURSIVE AllPages(_, _, _, _)
AllPages(total_rows, page_size, start, pages) ==
    IF start > total_rows THEN pages
    ELSE AllPages(total_rows, page_size, Min2(total_rows, start + page_size - 1) + 1,
                  Append(pages, <<start, Min2(total_rows, start + page_size - 1)>>))

find_keys_no_early_stop(sheet, total_rows, keys_set, page_size, failed) ==
    [found |-> PagedLoop(sheet, total_rows, page_size, failed, 1, Range(keys_set), EmptyMap, <<>>).found,
     pages |-> IF keys_set = <<>> THEN <<>> ELSE AllPages(total_rows, page_size, 1, <<>>)]

find_keys_in_sheet_paged(sheet, total_rows, keys_set, page_size, failed) ==
    PagedLoop(sheet, total_rows, page_size, failed, 1, Range(keys_set), EmptyMap, <<>>)

RECURSIVE ReadGroups(_, _, _, _)
ReadGroups(sheet, groups, last_col, res) ==
    IF groups = <<>> THEN res
    ELSE LET start == Head(groups)[1]
             block == SheetGet(sheet, start, Head(groups)[2], 1, last_col)
             part == [i \in start..(start + Len(block) - 1) |-> block[i - start + 1]]
         IN  ReadGroups(sheet, Tail(groups), last_col, part @@ res)

read_rows_by_indices(sheet, row_indices, last_col) ==
    IF row_indices = {} THEN EmptyMap
    ELSE ReadGroups(sheet, _group_contiguous(SortedSeq(row_indices)), last_col, EmptyMap)

\* delete_rows_descending with every ws.delete_rows succeeding
RECURSIVE DeleteDesc(_, _)
DeleteDesc(sheet, idxs) ==
    IF idxs = {} THEN sheet
    ELSE DeleteDesc(SheetDelete(sheet, SetMax(idxs)), idxs \ {SetMax(idxs)})

delete_rows_descending(sheet, row_indices) == DeleteDesc(sheet, Range(row_indices))

\* sorted(updates, key=lambda x: x[0]): a stable sort on the row index
RECURSIVE InsertByIdx(_, _)
InsertByIdx(sorted, u) ==
    IF sorted = <<>> THEN <<u>>
    ELSE IF sorted[Len(sorted)][1] <= u[1] THEN Append(sorted, u)
    ELSE Append(InsertByIdx(SubSeq(sorted, 1, Len(sorted) - 1), u), sorted[Len(sorted)])

RECURSIVE SortByIdx(_, _)
SortByIdx(updates, acc) ==
    IF updates = <<>> THEN acc
    ELSE SortByIdx(Tail(updates), InsertByIdx(acc, Head(updates)))

\* the grouping loop shared by batch_overwrite_rows and apply_overwrites:
\* an update joins the current group when its index follows the previous one
RECURSIVE RunLoop(_, _, _)
RunLoop(rest, current, groups) ==
    IF rest = <<>> THEN (IF current = <<>> THEN groups ELSE Append(groups, current))
    ELSE IF current = <<>> \/ Head(rest)[1] = current[Len(current)][1] + 1
         THEN RunLoop(Tail(rest), Append(current, Head(rest)), groups)
         ELSE RunLoop(Tail(rest), <<Head(rest)>>, Append(groups, current))

\* the while loop that cuts one group into calls of at most batch_size rows;
\* a call is <<first row of the range, last row of the range, values>>
RECURSIVE ChunkLoop(_, _, _, _)
ChunkLoop(grp, s_idx, batch_size, calls) ==
    IF ~(s_idx <= Len(grp)) THEN calls
    ELSE LET e_idx == Min2(Len(grp), s_idx + batch_size - 1)
             chunk_rows == [k \in 1..(e_idx - s_idx + 1) |-> grp[s_idx + k - 1][2]]
         IN  ChunkLoop(grp, e_idx + 1, batch_size,
                       Append(calls, <<grp[s_idx][1],
                                       grp[s_idx + Len(chunk_rows) - 1][1],
                                       chunk_rows>>))

RECURSIVE GroupCalls(_, _, _)
GroupCalls(groups, batch_size, calls) ==
    IF groups = <<>> THEN calls
    ELSE GroupCalls(Tail(groups), batch_size,
                    ChunkLoop(Head(groups), 1, batch_size, calls))

\* the sorted updates taken as one group, gaps between the indices ignored
batch_overwrite_one_group(updates, batch_size) ==
    IF updates = <<>> THEN <<>>
    ELSE GroupCalls(<<SortByIdx(updates, <<>>)>>, batch_size, <<>>)

\* the ws.update calls that batch_overwrite_rows issues, in order
batch_overwrite_calls(updates, batch_size) ==
    IF updates = <<>> THEN <<>>
    ELSE GroupCalls(RunLoop(SortByIdx(updates, <<>>), <<>>, <<>>), batch_size, <<>>)

\* nse_data_etl.py: _flush_overwrite_batch, the one ws.update call of a batch
_flush_overwrite_batch(batch) ==
    <<batch[1][1], batch[Len(batch)][1], [k \in 1..Len(batch) |-> batch[k][2]]>>

\* nse_data_etl.py: the ws.update calls that apply_overwrites issues, in order
apply_overwrites_calls(to_overwrite) ==
    IF to_overwrite = <<>> THEN <<>>
    ELSE [g \in 1..Len(RunLoop(SortByIdx(to_overwrite, <<>>), <<>>, <<>>)) |->
             _flush_overwrite_batch(RunLoop(SortByIdx(to_overwrite, <<>>), <<>>, <<>>)[g])]

RECURSIVE ApplyCalls(_, _)
ApplyCalls(sheet, calls) ==
    IF calls = <<>> THEN sheet
    ELSE ApplyCalls(SheetUpdate(sheet, Head(calls)[1], 1, Head(calls)[3]), Tail(calls))

batch_overwrite_rows(sheet, updates, batch_size) ==
    ApplyCalls(sheet, batch_overwrite_calls(updates, batch_size))

\* copy_formulas_hi_where_blank: one target range
FormulaRows(existing, template_row, n) ==
    [k \in 1..n |->
        LET existing_row == IF k <= Len(existing) THEN existing[k] ELSE <<>>
            h == Cell(existing_row, 1)
            i == Cell(existing_row, 2)
        IN  <<IF Strip(h) = <<>> THEN Cell(template_row, 1) ELSE h,
              IF Strip(i) = <<>> THEN Cell(template_row, 2) ELSE i>>]

RECURSIVE FormulaLoop(_, _, _)
FormulaLoop(sheet, target_ranges, template_row) ==
    IF target_ranges = <<>> THEN sheet
    ELSE LET start == Head(target_ranges)[1]
             end == Head(target_ranges)[2]
             existing == SheetGet(sheet, start, end, 8, 9)
             rows_to_write == FormulaRows(existing, template_row, end - start + 1)
             write_any == \E k \in 1..(end - start + 1) :
                             LET er == IF k <= Len(existing) THEN existing[k] ELSE <<>>
                             IN  rows_to_write[k] # <<Cell(er, 1), Cell(er, 2)>>
         IN  FormulaLoop(IF write_any THEN SheetUpdate(sheet, start, 8, rows_to_write)
                         ELSE sheet,
                         Tail(target_ranges), template_row)

copy_formulas_hi_where_blank(sheet, target_ranges) ==
    IF target_ranges = <<>> THEN sheet
    ELSE LET template == SheetGet(sheet, 2, 2, 8, 9)
             template_row == IF template # <<>> /\ template[1] # <<>>
                             THEN template[1] ELSE <<Blank, Blank>>
         IN  FormulaLoop(sheet, target_ranges, template_row)

\* step 9: sort the ranges by their start and merge touching ranges
RECURSIVE MergeLoop(_, _, _, _)
MergeLoop(rest, cs, ce, merged) ==
    IF rest = <<>> THEN Append(merged, <<cs, ce>>)
    ELSE IF Head(rest)[1] <= ce + 1
         THEN MergeLoop(Tail(rest), cs, Max2(ce, Head(rest)[2]), merged)
         ELSE MergeLoop(Tail(rest), Head(rest)[1], Head(rest)[2],
                        Append(merged, <<cs, ce>>))

MergeRanges(combined) ==
    IF combined = <<>> THEN <<>>
    ELSE LET combined_sorted == SortByIdx(combined, <<>>)
         IN  MergeLoop(Tail(combined_sorted), combined_sorted[1][1],
                       combined_sorted[1][2], <<>>)

\* step 8: the retry loop around append_rows; the first `fails` attempts raise.
\* The result gives the attempt number and last_err as the loop leaves them.
RECURSIVE AppendAttempts(_, _, _)
AppendAttempts(attempt, fails, last_err) ==
    IF attempt > fails
    THEN [appended |-> TRUE, attempt |-> attempt, last_err |-> last_err]
    ELSE IF attempt = MAX_RETRIES
         THEN [appended |-> FALSE, attempt |-> attempt, last_err |-> TRUE]
         ELSE AppendAttempts(attempt + 1, fails, TRUE)

\* step 8: rows of the tail read that hold the keys of the chunk
RECURSIVE TailMap(_, _, _)
TailMap(tail, rownum, tail_map) ==
    IF tail = <<>> THEN tail_map
    ELSE TailMap(Tail(tail), rownum + 1,
                 (RowKey(Head(tail)) :> rownum) @@ tail_map)

MappedRows(chunk, tail_map) ==
    {tail_map[RowKey(chunk[k])] : k \in {j \in 1..Len(chunk) : RowKey(chunk[j]) \in DOMAIN tail_map}}

\* step 8: the while loop over the chunks of to_append
RECURSIVE AppendLoop(_, _, _, _, _, _, _)
AppendLoop(sheet, total_rows_now, to_append, i, append_chunk, fails, ranges) ==
    IF ~(i <= Len(to_append))
    THEN [sheet |-> sheet, ranges |-> ranges, raised |-> FALSE]
    ELSE LET chunk == SubSeq(to_append, i, Min2(Len(to_append), i + append_chunk - 1))
             att == AppendAttempts(1, fails, FALSE)
             sheet1 == IF att.appended THEN SheetAppend(sheet, chunk) ELSE sheet
         IN  IF att.last_err /\ att.attempt = MAX_RETRIES
             THEN [sheet |-> sheet1, ranges |-> ranges, raised |-> TRUE]
             ELSE LET tail_start == Max2(1, total_rows_now - (Len(chunk) + TAIL_WINDOW))
                      tail == SheetGet(sheet1, tail_start, total_rows_now, 1, 2)
                      mapped_rows == MappedRows(chunk, TailMap(tail, tail_start, EmptyMap))
                  IN  AppendLoop(sheet1, total_rows_now, to_append, i + append_chunk,
                                 append_chunk, fails,
                                 IF mapped_rows # {}
                                 THEN Append(ranges, <<SetMin(mapped_rows), SetMax(mapped_rows)>>)
                                 ELSE ranges)

(* ------------------------------------------------------------------ *)
(* data_teleporter.py: replicate_bank_new_to_dest                       *)
(* ------------------------------------------------------------------ *)
\* failed is the set of <<call, page>> whose page read raises; the calls of
\* find_keys_in_sheet_paged are numbered 1 (BANK_FINAL, step 4), 2 (BANK_NEW,
\* step 2), 3 (re-location after the deletes) and 3 + k (verification of the
\* k-th key)
FailedPages(failed, call) == {fp[2] : fp \in {x \in failed : x[1] = call}}

\* steps 2 and 3: payload_map as the sequence of <<key, source row>>, in the
\* order in which the keys are inserted
RECURSIVE PayloadLoop(_, _, _, _)
PayloadLoop(process_keys, key_to_src_index, src_rows_map, payload) ==
    IF process_keys = <<>> THEN payload
    ELSE LET k == Head(process_keys)
             idx == key_to_src_index[k]
             vals == IF idx \in DOMAIN src_rows_map THEN src_rows_map[idx] ELSE <<>>
             known == \E n \in 1..Len(payload) : payload[n][1] = k
         IN  PayloadLoop(Tail(process_keys), key_to_src_index, src_rows_map,
                         IF vals = <<>> THEN payload
                         ELSE IF known
                              THEN [n \in 1..Len(payload) |->
                                      IF payload[n][1] = k THEN <<k, vals>> ELSE payload[n]]
                              ELSE Append(payload, <<k, vals>>))

\* step 4: the action plan
RECURSIVE PlanLoop(_, _, _)
PlanLoop(payload, dest_found, plan) ==
    IF payload = <<>> THEN plan
    ELSE LET key == Head(payload)[1]
             src_row == Head(payload)[2]
             dest_idxs == IF key \in DOMAIN dest_found THEN dest_found[key] ELSE <<>>
             dest_idxs_sorted == SortedSeq(Range(dest_idxs))
         IN  PlanLoop(Tail(payload), dest_found,
                IF dest_idxs # <<>>
                THEN [plan EXCEPT
                        !.duplicates_to_delete = @ \o Tail(dest_idxs_sorted),
                        !.to_overwrite = Append(@, <<dest_idxs_sorted[1], src_row>>),
                        !.overwrite_ranges = Append(@, <<dest_idxs_sorted[1], dest_idxs_sorted[1]>>)]
                ELSE [plan EXCEPT !.to_append = Append(@, src_row)])

EmptyPlan ==
    [to_overwrite |-> <<>>, to_append |-> <<>>, duplicates_to_delete |-> <<>>,
     overwrite_ranges |-> <<>>]

\* step 5: the overwrite targets re-located after the deletes
RECURSIVE RelocateLoop(_, _, _)
RelocateLoop(payload, dest_found_after, plan) ==
    IF payload = <<>> THEN plan
    ELSE LET key == Head(payload)[1]
             dest_idxs == IF key \in DOMAIN dest_found_after
                          THEN dest_found_after[key] ELSE <<>>
         IN  RelocateLoop(Tail(payload), dest_found_after,
                IF dest_idxs # <<>>
                THEN [plan EXCEPT
                        !.to_overwrite = Append(@, <<SetMin(Range(dest_idxs)), Head(payload)[2]>>),
                        !.overwrite_ranges = Append(@, <<SetMin(Range(dest_idxs)), SetMin(Range(dest_idxs))>>)]
                ELSE plan)

\* step 10: the number of verification mismatches over the sampled keys
RECURSIVE VerifyLoop(_, _, _, _, _, _, _)
VerifyLoop(sheet, total_rows, payload, n, page_size, failed, mismatches) ==
    IF n > Len(payload) THEN mismatches
    ELSE LET k == payload[n][1]
             dest_map_now == find_keys_in_sheet_paged(sheet, total_rows, <<k>>, page_size,
                                                      FailedPages(failed, 3 + n)).found
             dest_idxs_now == IF k \in DOMAIN dest_map_now THEN dest_map_now[k] ELSE <<>>
             canonical == SetMin(Range(dest_idxs_now))
             got == SheetGet(sheet, canonical, canonical, 1, LAST_COL)
             dest_row == IF got = <<>> THEN <<>> ELSE got[1]
         IN  VerifyLoop(sheet, total_rows, payload, n + 1, page_size, failed,
                        IF dest_idxs_now = <<>> THEN mismatches + 1
                        ELSE IF ~rows_equal(dest_row, payload[n][2]) THEN mismatches + 1
                        ELSE mismatches)

NoReport ==
    [overwrites |-> 0, appends |-> 0, duplicates_deleted |-> 0,
     verification_mismatches |-> 0]

\* The run is written as a chain of stages, one per numbered step of the code;
\* c holds the arguments of the run, and each stage receives what the steps
\* before it computed.
RunResult(sheet, rows, end, report) ==
    [final |-> sheet, rows |-> rows, end |-> end, report |-> report]

\* step 10 and the final log line
Step10(c, payload, plan, dups, sheet, rows) ==
    RunResult(sheet, rows, "done",
              [overwrites |-> Len(plan.to_overwrite),
               appends |-> Len(plan.to_append),
               duplicates_deleted |-> Len(dups),
               verification_mismatches |->
                   VerifyLoop(sheet, rows, payload, 1, c.page_size, c.failed, 0)])

\* step 9, unless step 8 raised
Step9(c, payload, plan, dups, rows, app) ==
    IF app.raised THEN RunResult(app.sheet, rows, "raised", NoReport)
    ELSE Step10(c, payload, plan, dups,
                copy_formulas_hi_where_blank(app.sheet,
                    MergeRanges(plan.overwrite_ranges \o app.ranges)),
                rows)

\* steps 7 and 8
Step7(c, payload, plan, dups, sheet, rows) ==
    Step9(c, payload, plan, dups, rows,
          AppendLoop(batch_overwrite_rows(sheet, plan.to_overwrite, c.batch_update_size),
                     rows, plan.to_append, 1, c.append_chunk, c.append_fails, <<>>))

\* step 6: ensure_rows with projected = row_count + len(to_append) + ROW_BUFFER
Step6(c, payload, plan, dups, sheet, rows) ==
    Step7(c, payload, plan, dups, sheet,
          IF rows + Len(plan.to_append) + ROW_BUFFER > rows
          THEN rows + Len(plan.to_append) + ROW_BUFFER ELSE rows)

\* step 5, when there are duplicates to delete: the sheet after the deletes
Step5b(c, payload, plan0, sheet, rows) ==
    Step6(c, payload,
          RelocateLoop(payload,
              find_keys_in_sheet_paged(sheet, rows, [n \in 1..Len(payload) |-> payload[n][1]],
                                       c.page_size, FailedPages(c.failed, 3)).found,
              [plan0 EXCEPT !.to_overwrite = <<>>, !.overwrite_ranges = <<>>]),
          plan0.duplicates_to_delete, sheet, rows)

Step5(c, payload, plan0) ==
    IF plan0.duplicates_to_delete # <<>>
    THEN Step5b(c, payload, plan0,
                delete_rows_descending(c.final_sheet, plan0.duplicates_to_delete),
                c.final_total - Cardinality(Range(plan0.duplicates_to_delete)))
    ELSE Step6(c, payload, plan0, plan0.duplicates_to_delete, c.final_sheet, c.final_total)

\* step 4
Step4(c, payload) ==
    IF payload = <<>> THEN RunResult(c.final_sheet, c.final_total, "nothing", NoReport)
    ELSE Step5(c, payload,
               PlanLoop(payload,
                   find_keys_in_sheet_paged(c.final_sheet, c.final_total,
                                            [n \in 1..Len(payload) |-> payload[n][1]],
                                            c.page_size, FailedPages(c.failed, 1)).found,
                   EmptyPlan))

\* step 3
Step3(c, process_keys, key_to_src_index) ==
    IF process_keys = <<>> THEN RunResult(c.final_sheet, c.final_total, "nothing", NoReport)
    ELSE Step4(c, PayloadLoop(process_keys, key_to_src_index,
                    read_rows_by_indices(c.new_sheet,
                        {key_to_src_index[k] : k \in DOMAIN key_to_src_index}, LAST_COL),
                    <<>>))

\* step 2
Step2b(c, inc_keys, src_found) ==
    Step3(c, SelectSeq(inc_keys, LAMBDA k : k \in DOMAIN src_found),
          [k \in DOMAIN src_found |-> SetMin(Range(src_found[k]))])

Step2(c, inc_keys) ==
    IF inc_keys = <<>> THEN RunResult(c.final_sheet, c.final_total, "nothing", NoReport)
    ELSE Step2b(c, inc_keys,
                find_keys_in_sheet_paged(c.new_sheet, c.new_total, inc_keys, c.page_size,
                                         FailedPages(c.failed, 2)).found)

\* The whole run.  inc_sheet and new_sheet are BANK_INC and BANK_NEW of the
\* source spreadsheet, final_sheet and final_total BANK_FINAL and its grid row
\* count; the result is BANK_FINAL after the run, its row count, how the run
\* ended ("nothing", "raised" or "done") and the figures of the final log line.
replicate_bank_new_to_dest(inc_sheet, new_sheet, new_total, final_sheet, final_total, page_size, batch_update_size, append_chunk, failed, append_fails) ==
    Step2([new_sheet |-> new_sheet, new_total |-> new_total, final_sheet |-> final_sheet,
           final_total |-> final_total, page_size |-> page_size,
           batch_update_size |-> batch_update_size, append_chunk |-> append_chunk,
           failed |-> failed, append_fails |-> append_fails],
          read_inc_keys(inc_sheet))

(* ------------------------------------------------------------------ *)
(* extra/gtt_core.py, extra/gtt_services.py                             *)
(* ------------------------------------------------------------------ *)
ActionType == {"PLACE", "UPDATE", "DELETE", "UNKNOWN"}

\* the status texts, without the mark that precedes each of them
StatusMessages ==
    [PLACED |-> "placed", UPDATED |-> "updated", DELETED |-> "deleted",
     DUPLICATE_FOUND |-> "duplicate found", NO_UPDATE_NEEDED |-> "no update needed",
     MISSING_FIELD |-> "MISSING FIELD", NO_GTT_ID_UPDATE |-> "no gtt_id to update",
     NO_GTT_ID_DELETE |-> "no gtt_id to delete", NO_MATCH_FOUND |-> "no match found",
     MULTIPLE_MATCHES |-> "conflict: multiple matches",
     UNKNOWN_ACTION |-> "unknown action", error |-> "error", exception |-> "exception"]

\* keyword in raw_type
Contains(s, kw) ==
    \E i \in 1..(Len(s) - Len(kw) + 1) : SubSeq(s, i, i + Len(kw) - 1) = kw

BUY_KEYWORDS ==
    {<<" ", "B", "U", "Y">>, <<"R", "T", "P", "_", "B", "U", "Y">>, <<"K", "W", "K">>,
     <<"S", "I", "P", "_", "R", "E", "G">>}

SELL_KEYWORDS == {<<" ", "S", "E", "L", "L">>, <<"R", "T", "P", "_", "S", "E", "L", "L">>}

\* TypeNormalizer.normalize_for_matching: the keywords are looked up in raw_type
\* as given, the stripped upper-case form is used for the TSL prefix and as
\* the fallback
normalize_for_matching(raw_type) ==
    IF \E kw \in BUY_KEYWORDS : Contains(raw_type, kw) THEN <<"B", "U", "Y">>
    ELSE IF \E kw \in SELL_KEYWORDS : Contains(raw_type, kw) THEN <<"S", "E", "L", "L">>
    ELSE IF \/ SubSeq(raw_type, 1, Min2(3, Len(raw_type))) = <<"T", "S", "L">>
            \/ SubSeq(Upper(Strip(raw_type)), 1, Min2(3, Len(Strip(raw_type))))
                   = <<"T", "S", "L">>
         THEN <<"S", "E", "L", "L">>
    ELSE Upper(Strip(raw_type))

\* GTTInstruction.limit_price
limit_price(instruction) ==
    IF normalize_for_matching(instruction.type) = <<"B", "U", "Y">>
    THEN instruction.gtt_price + instruction.tick_size
    ELSE instruction.gtt_price - instruction.tick_size

match_for_exact_comparison(instruction, data_row) ==
    /\ instruction.ticker = data_row.ticker
    /\ normalize_for_matching(instruction.type) = normalize_for_matching(data_row.type)
    /\ instruction.units = data_row.units
    /\ instruction.gtt_price = data_row.gtt_price

match_for_update(instruction, data_row) ==
    /\ instruction.ticker = data_row.ticker
    /\ normalize_for_matching(instruction.type) = normalize_for_matching(data_row.type)

find_matching_rows(instruction, data_rows, update_match) ==
    IF update_match
    THEN SelectSeq(data_rows, LAMBDA row : match_for_update(instruction, row))
    ELSE SelectSeq(data_rows, LAMBDA row : match_for_exact_comparison(instruction, row))

\* validation without the check of UNITS
validate_instruction_no_units(instruction) ==
    IF instruction.ticker = "" THEN "Missing TICKER"
    ELSE IF instruction.type = Blank THEN "Missing TYPE"
    ELSE IF instruction.action = "UNKNOWN" THEN "Unknown ACTION"
    ELSE IF instruction.gtt_price <= 0 THEN "Invalid GTT PRICE"
    ELSE "None"

\* GTTValidationService.validate_instruction: the error message, or "None"
validate_instruction(instruction) ==
    IF instruction.ticker = "" THEN "Missing TICKER"
    ELSE IF instruction.type = Blank THEN "Missing TYPE"
    ELSE IF instruction.action = "UNKNOWN" THEN "Unknown ACTION"
    ELSE IF instruction.units <= 0 THEN "Invalid UNITS"
    ELSE IF instruction.gtt_price <= 0 THEN "Invalid GTT PRICE"
    ELSE "None"

should_update_gtt(instruction, existing_data) ==
    ~(/\ existing_data.units = instruction.units
      /\ existing_data.gtt_price = limit_price(instruction))

\* every matched row taken to carry a GTT_ID
gtt_id_never_missing(matched_row) == TRUE

\* the test "not matched_row.gtt_id" of the handlers, negated
has_gtt_id(matched_row) == matched_row.gtt_id # ""

\* GoogleSheetOperations.find_data_row_by_gtt_id: the sheet row (the header is
\* row 1) of the first record with that GTT_ID, 0 for None; sheet_fault = "read"
\* is get_all_records raising, which the method turns into None
find_data_row_by_gtt_id(sheet, gtt_id, sheet_fault) ==
    IF sheet_fault = "read" \/ ~(\E n \in 1..Len(sheet) : sheet[n].gtt_id = gtt_id) THEN 0
    ELSE 1 + SetMin({n \in 1..Len(sheet) : sheet[n].gtt_id = gtt_id})

\* the row appended without the GTT_ID
append_row_without_id(instruction, gtt_id) ==
    [ticker |-> instruction.ticker, type |-> instruction.type, units |-> instruction.units,
     gtt_price |-> instruction.gtt_price, gtt_date |-> instruction.gtt_date, gtt_id |-> ""]

\* _add_to_data_sheet: the values of append_row in the order of the data header
append_row(instruction, gtt_id) ==
    [ticker |-> instruction.ticker, type |-> instruction.type, units |-> instruction.units,
     gtt_price |-> instruction.gtt_price, gtt_date |-> instruction.gtt_date,
     gtt_id |-> gtt_id]

(* ------------------------------------------------------------------ *)
(* extra/gtt_processor_new.py: GTTProcessor                             *)
(* ------------------------------------------------------------------ *)
\* What a handler did: the broker calls, the statuses handed to
\* update_status, the calls on the data sheet, the data sheet afterwards and
\* whether the handler raised.  env.broker_ok: the broker call succeeds;
\* env.sheet_fault: "none", "read" (get_all_records raises) or "write" (the
\* append, update or delete call raises); env.gtt_id: the trigger id returned.
Outcome(broker, status, ops, sheet, raised) ==
    [broker |-> broker, status |-> status, ops |-> ops, sheet |-> sheet, raised |-> raised]

_handle_place_action(instruction, data_rows, sheet, env) ==
    IF find_matching_rows(instruction, data_rows, FALSE) # <<>>
    THEN Outcome(<<>>, <<StatusMessages.DUPLICATE_FOUND>>, <<>>, sheet, FALSE)
    ELSE IF ~env.broker_ok
    THEN Outcome(<<<<"place_gtt", instruction.row_number>>>>, <<StatusMessages.error>>,
                 <<>>, sheet, TRUE)
    ELSE IF env.sheet_fault = "write"
    THEN Outcome(<<<<"place_gtt", instruction.row_number>>>>,
                 <<StatusMessages.PLACED, StatusMessages.error>>,
                 <<<<"append_data_row", append_row(instruction, env.gtt_id)>>>>, sheet, TRUE)
    ELSE Outcome(<<<<"place_gtt", instruction.row_number>>>>, <<StatusMessages.PLACED>>,
                 <<<<"append_data_row", append_row(instruction, env.gtt_id)>>>>,
                 Append(sheet, append_row(instruction, env.gtt_id)), FALSE)

\* _update_data_sheet, reached after modify_gtt succeeded; its errors are logged
\* and not raised
_update_data_sheet(gtt_id, instruction, sheet, env, row_number) ==
    IF row_number = 0
    THEN Outcome(<<<<"modify_gtt", gtt_id>>>>, <<StatusMessages.UPDATED>>,
                 <<<<"find_data_row_by_gtt_id", gtt_id>>>>, sheet, FALSE)
    ELSE Outcome(<<<<"modify_gtt", gtt_id>>>>, <<StatusMessages.UPDATED>>,
                 <<<<"find_data_row_by_gtt_id", gtt_id>>, <<"update_data_row", row_number>>>>,
                 IF env.sheet_fault = "write" THEN sheet
                 ELSE [sheet EXCEPT ![row_number - 1] =
                          append_row(instruction, sheet[row_number - 1].gtt_id)],
                 FALSE)

_handle_update_action(instruction, data_rows, sheet, env, matches) ==
    IF Len(matches) = 1
    THEN IF ~has_gtt_id(matches[1])
         THEN Outcome(<<>>, <<StatusMessages.NO_GTT_ID_UPDATE>>, <<>>, sheet, FALSE)
         ELSE IF ~should_update_gtt(instruction, matches[1])
         THEN Outcome(<<>>, <<StatusMessages.NO_UPDATE_NEEDED>>, <<>>, sheet, FALSE)
         ELSE IF ~env.broker_ok
         THEN Outcome(<<<<"modify_gtt", matches[1].gtt_id>>>>, <<StatusMessages.error>>,
                      <<>>, sheet, TRUE)
         ELSE _update_data_sheet(matches[1].gtt_id, instruction, sheet, env,
                  find_data_row_by_gtt_id(sheet, matches[1].gtt_id, env.sheet_fault))
    ELSE IF Len(matches) > 1
    THEN Outcome(<<>>, <<StatusMessages.MULTIPLE_MATCHES>>, <<>>, sheet, FALSE)
    ELSE Outcome(<<>>, <<StatusMessages.NO_MATCH_FOUND>>, <<>>, sheet, FALSE)

\* _remove_from_data_sheet, reached after delete_gtt succeeded; its errors are
\* logged and not raised
_remove_from_data_sheet(gtt_id, sheet, env, row_number) ==
    IF row_number = 0
    THEN Outcome(<<<<"delete_gtt", gtt_id>>>>, <<StatusMessages.DELETED>>,
                 <<<<"find_data_row_by_gtt_id", gtt_id>>>>, sheet, FALSE)
    ELSE Outcome(<<<<"delete_gtt", gtt_id>>>>, <<StatusMessages.DELETED>>,
                 <<<<"find_data_row_by_gtt_id", gtt_id>>, <<"delete_data_row", row_number>>>>,
                 IF env.sheet_fault = "write" THEN sheet
                 ELSE SheetDelete(sheet, row_number - 1),
                 FALSE)

_handle_delete_action(instruction, data_rows, sheet, env, matches) ==
    IF Len(matches) = 1
    THEN IF ~has_gtt_id(matches[1])
         THEN Outcome(<<>>, <<StatusMessages.NO_GTT_ID_DELETE>>, <<>>, sheet, FALSE)
         ELSE IF ~env.broker_ok
         THEN Outcome(<<<<"delete_gtt", matches[1].gtt_id>>>>, <<StatusMessages.error>>,
                      <<>>, sheet, TRUE)
         ELSE _remove_from_data_sheet(matches[1].gtt_id, sheet, env,
                  find_data_row_by_gtt_id(sheet, matches[1].gtt_id, env.sheet_fault))
    ELSE IF Len(matches) > 1
    THEN Outcome(<<>>, <<StatusMessages.MULTIPLE_MATCHES>>, <<>>, sheet, FALSE)
    ELSE Outcome(<<>>, <<StatusMessages.NO_MATCH_FOUND>>, <<>>, sheet, FALSE)

\* the except clause of process_instruction: an exception of a handler is
\* logged, reported as a status and not raised further
Swallow(o) ==
    IF o.raised
    THEN Outcome(o.broker, Append(o.status, StatusMessages.exception), o.ops, o.sheet, FALSE)
    ELSE o

process_instruction(instruction, data_rows, sheet, env) ==
    IF validate_instruction(instruction) # "None"
    THEN Outcome(<<>>, <<StatusMessages.MISSING_FIELD>>, <<>>, sheet, FALSE)
    ELSE IF instruction.action = "PLACE"
    THEN Swallow(_handle_place_action(instruction, data_rows, sheet, env))
    ELSE IF instruction.action = "UPDATE"
    THEN Swallow(_handle_update_action(instruction, data_rows, sheet, env,
                     find_matching_rows(instruction, data_rows, TRUE)))
    ELSE IF instruction.action = "DELETE"
    THEN Swallow(_handle_delete_action(instruction, data_rows, sheet, env,
                     find_matching_rows(instruction, data_rows, FALSE)))
    ELSE Outcome(<<>>, <<StatusMessages.UNKNOWN_ACTION>>, <<>>, sheet, FALSE)

(* ------------------------------------------------------------------ *)
(* extra/gtt_processor_new.py: GTTBatchProcessor, extra/gtt_main.py     *)
(* ------------------------------------------------------------------ *)
\* A row of the instruction sheet as read_rows_from_sheet returns it: a dict of
\* the header names (ACTION_ is the column ACTION); TYPE and ACTION_ are the
\* characters of the cell.
BATCH_SIZE == 1000

BlankRaw ==
    [TICKER |-> "", TYPE |-> Blank, UNITS |-> 0, GTT_PRICE |-> 0, TICK_SIZE |-> 0,
     ACTION_ |-> Blank, GTT_DATE |-> ""]

\* DataParser.determine_action
determine_action(raw_action) ==
    IF raw_action = Blank THEN "UNKNOWN"
    ELSE IF \/ Contains(Upper(Strip(raw_action)), <<"I", "N", "S", "E", "R", "T">>)
            \/ Contains(Upper(Strip(raw_action)), <<"P", "L", "A", "C", "E">>)
    THEN "PLACE"
    ELSE IF Contains(Upper(Strip(raw_action)), <<"U", "P", "D", "A", "T", "E">>) THEN "UPDATE"
    ELSE IF Contains(Upper(Strip(raw_action)), <<"D", "E", "L", "E", "T", "E">>) THEN "DELETE"
    ELSE "UNKNOWN"

\* What the loops of process_batch iterate over: is_dict tells a row dict
\* from a list, on which .get raises AttributeError.
DictItem(row) == [is_dict |-> TRUE, row |-> row]

ListItem == [is_dict |-> FALSE, row |-> BlankRaw]

\* DataParser.parse_instruction: <<instruction>>, or <<>> for None (a field of
\* TICKER, TYPE, ACTION is empty, or an exception was caught)
parse_instruction(item, row_number) ==
    IF ~item.is_dict THEN <<>>
    ELSE IF item.row.TICKER = "" \/ Strip(item.row.TYPE) = Blank
            \/ Strip(item.row.ACTION_) = Blank
    THEN <<>>
    ELSE <<[ticker |-> item.row.TICKER, type |-> Strip(item.row.TYPE),
            units |-> item.row.UNITS, gtt_price |-> item.row.GTT_PRICE,
            tick_size |-> item.row.TICK_SIZE,
            action |-> determine_action(Strip(item.row.ACTION_)),
            gtt_date |-> item.row.GTT_DATE, row_number |-> row_number]>>

\* DataParser.parse_data_row of a row dict
parse_data_row(raw_data) == [raw_data EXCEPT !.type = Strip(raw_data.type)]

\* read_rows_from_sheet: sheet.get of the rows start_row..start_row+num_rows-1,
\* which leaves out the empty rows at the end of the range; sheet[n] is sheet
\* row n + 1
read_rows_from_sheet(sheet, empty, first_row, num_rows) ==
    SubSeq(sheet, first_row - 1,
           SetMax({first_row - 2} \cup
                  {n \in (first_row - 1)..Min2(Len(sheet), first_row + num_rows - 2) :
                      sheet[n] # empty}))

\* instruction_fetcher and data_fetcher, the constructor arguments of
\* GTTBatchProcessor.  wiring = "pair": the fetchers of setup_dependencies,
\* which return the tuple (raw rows, non-empty rows) of
\* fetch_gtt_instructions_batch and fetch_existing_gtts_batch; wiring = "rows":
\* fetchers returning the raw rows, the List[Dict] of their annotation.
fetcher(rows, wiring) ==
    IF wiring = "pair" THEN <<ListItem, ListItem>>
    ELSE [k \in 1..Len(rows) |-> DictItem(rows[k])]

\* process_batch, the parse loop: <<instructions, failed_rows>>
RECURSIVE ParseLoop(_, _, _, _, _)
ParseLoop(raw_instructions, first_row, idx, instructions, failed_rows) ==
    IF idx > Len(raw_instructions) THEN <<instructions, failed_rows>>
    ELSE IF parse_instruction(raw_instructions[idx], first_row + idx - 1) = <<>>
    THEN ParseLoop(raw_instructions, first_row, idx + 1, instructions,
                   Append(failed_rows, [row_number |-> first_row + idx - 1,
                                        reason |-> "Failed to parse instruction"]))
    ELSE ParseLoop(raw_instructions, first_row, idx + 1,
                   instructions \o parse_instruction(raw_instructions[idx], first_row + idx - 1),
                   failed_rows)

\* what a batch has done so far
BatchAcc(sheet, broker, status, ops, handed, failed_rows) ==
    [sheet |-> sheet, broker |-> broker, status |-> status, ops |-> ops, handed |-> handed,
     failed_rows |-> failed_rows]

\* process_batch, the body of the processing loop; o is what the call of
\* process_instruction did
ProcessOne(acc, instruction, o) ==
    BatchAcc(o.sheet, acc.broker \o o.broker, acc.status \o o.status, acc.ops \o o.ops,
             Append(acc.handed, [row_number |-> instruction.row_number,
                                 instruction |-> instruction, status |-> o.status]),
             IF o.raised
             THEN Append(acc.failed_rows, [row_number |-> instruction.row_number,
                                           reason |-> "exception"])
             ELSE acc.failed_rows)

RECURSIVE ProcessLoop(_, _, _, _)
ProcessLoop(instructions, rows, env, acc) ==
    IF instructions = <<>> THEN acc
    ELSE ProcessLoop(Tail(instructions), rows, env,
                     ProcessOne(acc, Head(instructions),
                                process_instruction(Head(instructions), rows, acc.sheet, env)))

BatchResult(raised, total_processed, rows, acc) ==
    [raised |-> raised, total_processed |-> total_processed, failed_rows |-> acc.failed_rows,
     conflict_rows |-> <<>>, data_rows |-> rows, sheet |-> acc.sheet, broker |-> acc.broker,
     status |-> acc.status, ops |-> acc.ops, handed |-> acc.handed]

\* process_batch after the fetches, parsed being the result of the parse loop
ProcessParsed(parsed, raw_data_rows, sheet, env) ==
    IF \E k \in 1..Len(raw_data_rows) : ~raw_data_rows[k].is_dict
    THEN BatchResult(TRUE, 0, <<>>, BatchAcc(sheet, <<>>, <<>>, <<>>, <<>>, parsed[2]))
    ELSE BatchResult(FALSE, Len(parsed[1]),
                     [k \in 1..Len(raw_data_rows) |-> parse_data_row(raw_data_rows[k].row)],
                     ProcessLoop(parsed[1],
                                 [k \in 1..Len(raw_data_rows) |->
                                     parse_data_row(raw_data_rows[k].row)],
                                 env, BatchAcc(sheet, <<>>, <<>>, <<>>, <<>>, parsed[2])))

process_batch(first_row, raw_instructions, raw_data_rows, sheet, env) ==
    IF raw_instructions = <<>>
    THEN BatchResult(FALSE, 0, <<>>, BatchAcc(sheet, <<>>, <<>>, <<>>, <<>>, <<>>))
    ELSE ProcessParsed(ParseLoop(raw_instructions, first_row, 1, <<>>, <<>>), raw_data_rows,
                       sheet, env)

\* _log_final_statistics: whether 'All rows processed successfully!' is logged
_log_final_statistics(stats) == stats.failed_rows = <<>> /\ stats.conflict_rows = <<>>

(* ------------------------------------------------------------------ *)
(* nse_data_etl.py: the upsert of BANK_INC rows into BANK_NEW           *)
(* ------------------------------------------------------------------ *)
\* The text of a date <<y, m, d>> in one of three styles: "=DATE" is the
\* formula =DATE(y,m,d), "iso" is YYYY-MM-DD, "dmy" is dd-mmm-yyyy.
DateText(style, date) ==
    IF style = "dmy" THEN <<"dmy", date[3], date[2], date[1]>>
    ELSE <<style, date[1], date[2], date[3]>>

\* pd.to_datetime of a date text
to_datetime(text) ==
    IF text[1] = "dmy" THEN <<text[4], text[3], text[2]>> ELSE <<text[2], text[3], text[4]>>

parse_date_formula(date_formula_str) ==
    IF date_formula_str[1] = "=DATE"
    THEN <<"iso", date_formula_str[2], date_formula_str[3], date_formula_str[4]>>
    ELSE DateText("iso", to_datetime(date_formula_str))

\* the rows DATE, SYMBOL, CLOSE (standing for CLOSE..VOLUME) built from the
\* source records; 0 is a zero or blank value
build_bankinc_rows(df_comb) ==
    [k \in 1..Len(df_comb) |->
        <<DateText("=DATE", df_comb[k].date), df_comb[k].symbol, df_comb[k].close>>]

\* ws.get_all_values() below the header: a text cell shows its text, a date
\* cell shows its date in the number format of column A
get_all_values(sheet, fmt) ==
    [i \in 1..Len(sheet) |->
        <<IF sheet[i].kind = "date" /\ fmt = "dd-mmm-yyyy"
          THEN DateText("dmy", sheet[i].date) ELSE DateText("iso", sheet[i].date),
          sheet[i].symbol, sheet[i].close>>]

\* idx_by_date_sym of load_bank_new_indexed: the sheet row of the last row
\* showing (date, symbol)
load_bank_new_indexed(vals) ==
    [key \in {<<vals[i][1], vals[i][2]>> : i \in 1..Len(vals)} |->
        1 + SetMax({i \in 1..Len(vals) : <<vals[i][1], vals[i][2]>> = key})]

DateNum(date) == date[1] * 10000 + date[2] * 100 + date[3]

\* the rows of by_ticker[symbol] dated before cur_pydate with a value that is
\* not zeroish
EarlierRows(vals, symbol, cur_pydate) ==
    {i \in 1..Len(vals) : /\ vals[i][2] = symbol
                          /\ DateNum(to_datetime(vals[i][1])) < DateNum(cur_pydate)
                          /\ vals[i][3] # 0}

\* the value of the latest of them (the last one in sheet order among equal
\* dates), 0 for None
get_last_nonzero_val(vals, symbol, cur_pydate) ==
    IF EarlierRows(vals, symbol, cur_pydate) = {} THEN 0
    ELSE vals[CHOOSE i \in EarlierRows(vals, symbol, cur_pydate) :
                 \A j \in EarlierRows(vals, symbol, cur_pydate) :
                    \/ DateNum(to_datetime(vals[j][1])) < DateNum(to_datetime(vals[i][1]))
                    \/ /\ DateNum(to_datetime(vals[j][1])) = DateNum(to_datetime(vals[i][1]))
                       /\ j <= i][3]

\* gs_values of one BANK_INC row
gs_values(row, vals) ==
    <<parse_date_formula(row[1]), row[2],
      IF row[3] = 0
      THEN get_last_nonzero_val(vals, row[2], to_datetime(parse_date_formula(row[1])))
      ELSE row[3]>>

prepare_bank_new_changes(bankinc_rows, vals, idx_by_date_sym) ==
    [to_overwrite |->
        [k \in 1..Len(SelectSeq(bankinc_rows, LAMBDA row :
                 <<parse_date_formula(row[1]), row[2]>> \in DOMAIN idx_by_date_sym)) |->
            <<idx_by_date_sym[<<parse_date_formula(
                  SelectSeq(bankinc_rows, LAMBDA row :
                      <<parse_date_formula(row[1]), row[2]>> \in DOMAIN idx_by_date_sym)[k][1]),
                  SelectSeq(bankinc_rows, LAMBDA row :
                      <<parse_date_formula(row[1]), row[2]>> \in DOMAIN idx_by_date_sym)[k][2]>>],
              gs_values(SelectSeq(bankinc_rows, LAMBDA row :
                      <<parse_date_formula(row[1]), row[2]>> \in DOMAIN idx_by_date_sym)[k],
                  vals)>>],
     to_append |->
        [k \in 1..Len(SelectSeq(bankinc_rows, LAMBDA row :
                 <<parse_date_formula(row[1]), row[2]>> \notin DOMAIN idx_by_date_sym)) |->
            gs_values(SelectSeq(bankinc_rows, LAMBDA row :
                 <<parse_date_formula(row[1]), row[2]>> \notin DOMAIN idx_by_date_sym)[k],
                 vals)]]

\* the cell row that a values row becomes: ws.update writes it as given (the
\* date stays the text YYYY-MM-DD), append_rows with USER_ENTERED has the
\* sheet read the date text as a date
CellsOf(values, kind) ==
    [kind |-> kind, date |-> to_datetime(values[1]), symbol |-> values[2],
     close |-> values[3]]

\* the ws.update calls of apply_overwrites carried out on the sheet
RECURSIVE apply_overwrites(_, _)
apply_overwrites(sheet, calls) ==
    IF calls = <<>> THEN sheet
    ELSE apply_overwrites(
             [i \in 1..Len(sheet) |->
                 IF i + 1 >= Head(calls)[1] /\ i + 1 <= Head(calls)[2]
                 THEN CellsOf(Head(calls)[3][i + 2 - Head(calls)[1]], "text")
                 ELSE sheet[i]],
             Tail(calls))

apply_appends(sheet, to_append) ==
    sheet \o [k \in 1..Len(to_append) |-> CellsOf(to_append[k], "date")]

\* format_bank_new: a failure is only warned about
format_bank_new(fmt, format_ok) == IF format_ok THEN "dd-mmm-yyyy" ELSE fmt

\* steps 5 to 7 of process_and_update
WriteBankNew(sheet, changes, fmt, format_ok) ==
    [sheet |-> apply_appends(
                   apply_overwrites(sheet, apply_overwrites_calls(changes.to_overwrite)),
                   changes.to_append),
     fmt |-> format_bank_new(fmt, format_ok),
     appended |-> Len(changes.to_append)]

process_and_update(df_comb, sheet, fmt, format_ok) ==
    WriteBankNew(sheet,
                 prepare_bank_new_changes(build_bankinc_rows(df_comb),
                                          get_all_values(sheet, fmt),
                                          load_bank_new_indexed(get_all_values(sheet, fmt))),
                 fmt, format_ok)

(* ------------------------------------------------------------------ *)
(* google_sheets_utils.py: _call_with_retries                           *)
(* ------------------------------------------------------------------ *)
\* What one call of the wrapped function does: <<"ok", value>> when it returns,
\* <<"APIError", status>> when it raises a gspread APIError (status 0: the error
\* carries no usable response), <<"Exception", 0>> when it raises anything else.
GSHEETS_MAX_RETRIES == 6

is_retriable_any_status(e) == e[1] = "APIError"

_is_retriable(e) ==
    IF e[1] # "APIError" THEN FALSE
    ELSE e[2] \in {429, 500, 502, 503, 504}

(* ------------------------------------------------------------------ *)
(* nse_combined_fetcher.py                                              *)
(* ------------------------------------------------------------------ *)
\* A future is [st, raised, result]: st is "queued", "running" or "done", raised
\* counts the attempts of fetch_stock_info_yahoo that raised, result is the
\* dict returned (reduced to its Symbol) in a one-element tuple, <<>> for None.
attempts == 3

DEFAULT_MAX_WORKERS == 10

Submitted == [st |-> "queued", raised |-> 0, result |-> <<>>]

fetch_gives_up_early(future, symbol, ok) ==
    IF ok THEN [st |-> "done", raised |-> future.raised, result |-> <<[Symbol |-> symbol]>>]
    ELSE [st |-> "done", raised |-> future.raised + 1, result |-> <<>>]

\* one pass of the loop of _fetch_with_backoff: fetch_stock_info_yahoo returns
\* (ok) or raises; after the last pass None is returned
_fetch_with_backoff(future, symbol, ok) ==
    IF ok THEN [st |-> "done", raised |-> future.raised, result |-> <<[Symbol |-> symbol]>>]
    ELSE IF future.raised + 1 < attempts
           THEN [st |-> "running", raised |-> future.raised + 1, result |-> <<>>]
           ELSE [st |-> "done", raised |-> future.raised + 1, result |-> <<>>]

\* the body of the as_completed loop of fetch_all: <<stock_data, failed_symbols>>
collect_result(r, sym, sd, fs) ==
    IF r # <<>> THEN <<Append(sd, r[1]), fs>> ELSE <<sd, Append(fs, sym)>>

\* load_symbols of the two fetcher classes: "ok" or "raise"
load_symbols(mode, file, download_ok) ==
    IF file = "missing" THEN "raise"
    ELSE IF file = "given" THEN "ok"
    ELSE IF mode = "etf" THEN "raise"
    ELSE IF download_ok THEN "ok" ELSE "raise"

NoFile == [exists |-> FALSE, text |-> <<>>]

\* write_failed_symbols_file: the file holds the symbols, one per line
write_failed_symbols_file(failed) == [exists |-> TRUE, text |-> failed]

(* ------------------------------------------------------------------ *)
(* ensure_token.py                                                      *)
(* ------------------------------------------------------------------ *)
\* A file is [exists, text], text being the characters of its first line.
\* _read_api_key: the key, or "raise"
_read_api_key(file) ==
    IF ~file.exists THEN "raise"
    ELSE IF Strip(file.text) = <<>> THEN "raise"
    ELSE Strip(file.text)

\* _read_access_token: the token, or <<>> for None
_read_access_token(file) ==
    IF ~file.exists THEN <<>> ELSE Strip(file.text)

token_always_valid(access_token, margins_ok) == TRUE

\* _token_is_valid; margins_ok tells whether kite.margins() returns
_token_is_valid(access_token, margins_ok) ==
    IF access_token = <<>> THEN FALSE ELSE margins_ok

\* _run_auto_login: the token read back, or <<>> for None
_run_auto_login(returncode, file) ==
    IF returncode # 0 THEN <<>> ELSE _read_access_token(file)

\* _update_github_secret; gh is "ok", "not found" or "failed"
_update_github_secret(token, gh) == gh = "ok"

(* ------------------------------------------------------------------ *)
(* nse_combined_fetcher.py: upload_to_sheets                            *)
(* ------------------------------------------------------------------ *)
max_attempts == 5

LowerChar(c) ==
    CASE c = "Q" -> "q" [] c = "R" -> "r" [] c = "E" -> "e" [] c = "T" -> "t"
      [] OTHER -> c

Lower(s) == [i \in 1..Len(s) |-> LowerChar(s[i])]

RATE_TOKENS ==
    {<<"r", "a", "t", "e", " ", "l", "i", "m", "i", "t">>, <<"q", "u", "o", "t", "a">>,
     <<"4", "2", "9">>,
     <<"t", "o", "o", " ", "m", "a", "n", "y", " ", "r", "e", "q", "u", "e", "s", "t", "s">>,
     <<"e", "x", "c", "e", "e", "d", "e", "d">>}

\* rate_limited = any(tok in str(e).lower() ...)
rate_limited(e) == \E tok \in RATE_TOKENS : Contains(Lower(e), tok)

\* batch_size = initial_batch_size if initial_batch_size > 0 else 100
first_batch_size(initial_batch_size) ==
    IF initial_batch_size > 0 THEN initial_batch_size ELSE 100

batch_doubles(batch_size) == batch_size * 2

\* new_batch = max(10, batch_size // 2), taken when it is smaller
shrink_batch(batch_size) ==
    IF Max2(10, batch_size \div 2) < batch_size THEN Max2(10, batch_size \div 2)
    ELSE batch_size

\* current_batch = data[i:i + batch_size]
current_batch(data, i, batch_size) == SubSeq(data, i + 1, Min2(i + batch_size, Len(data)))

\* worksheet.update(values, range_name "A{start_row}:..{end_row}")
worksheet_update(sheet, start_row, values) ==
    [r \in 1..Len(sheet) |->
        IF r >= start_row /\ r <= start_row + Len(values) - 1
        THEN values[r - start_row + 1] ELSE sheet[r]]

(* ------------------------------------------------------------------ *)
(* State                                                                *)
(* ------------------------------------------------------------------ *)
VARIABLES
    bank_inc,      \* BANK_INC of the source spreadsheet
    bank_new,      \* BANK_NEW of the source spreadsheet
    new_rows,      \* grid row count of BANK_NEW
    bank_final,    \* BANK_FINAL of the destination spreadsheet
    final_rows,    \* grid row count of BANK_FINAL
    runs,          \* runs of replicate_bank_new_to_dest so far
    run_end,       \* how the latest run ended: "none", "nothing", "raised", "done"
    run_report,    \* the figures of the latest [DONE] log line
    api_ok,        \* number of latest runs in a row in which no API call raised
    append_failed, \* append_rows attempts per chunk that raised in the latest run
    scan_sheet,    \* find_keys_in_sheet_paged: the worksheet scanned
    scan_rows,     \* ws.row_count of that worksheet
    scan_keys,     \* keys_set
    scan_page_size, \* page_size
    scan_failed,   \* numbers of the pages whose ws.get raised
    scan_result,   \* the dict returned and the page ranges requested
    scan_pc,       \* "idle", "ready" (inputs given), "done" (returned)
    batch_updates, \* the (row index, values) list handed to the overwrite functions
    batch_size,    \* batch_size of batch_overwrite_rows
    tele_calls,    \* ws.update calls issued by batch_overwrite_rows: <<first, last, values>>
    etl_calls,     \* ws.update calls issued by apply_overwrites
    batch_done,    \* which of the two functions have run: "tele", "etl"
    instr,         \* the GTTInstruction handed to process_instruction
    data_rows,     \* the GTTDataRow list handed to process_instruction
    data_sheet,    \* the records of the GTT data sheet, below its header
    gtt_env,       \* how the broker and the data sheet answered the last instruction
    broker_calls,  \* calls made on the Kite API: <<method, argument>>
    status_calls,  \* the statuses handed to update_status, in order
    data_ops,      \* calls made on the data sheet: <<method, argument>>
    gtt_pc,        \* "idle", "ready" (instruction given), "done" (returned)
    etl_src,       \* the records of the stock and ETF sheets: date, symbol, close
    etl_new,       \* the cell rows of BANK_NEW below its header
    etl_fmt,       \* number format of column A of BANK_NEW: "auto" or "dd-mmm-yyyy"
    etl_runs,      \* runs of process_and_update that have completed
    etl_appended,  \* rows the latest run appended
    rt_attempts,   \* _call_with_retries: attempts, from GSHEETS_MAX_RETRIES
    rt_i,          \* the loop variable i
    rt_calls,      \* what each call of fn did, in order
    rt_end,        \* "idle", "running", "returned", "raised"
    rt_value,      \* what was returned or raised
    nse_pc,        \* nse_combined_fetcher.main: "idle", "load", "fetch", "fetching",
                   \* "csv", "failed_file", "upload", "exit"
    nse_mode,      \* --mode
    ticker_file,   \* --ticker-file: "absent", "given", "missing" (no such file)
    max_workers,   \* --max-workers
    symbols,       \* fetcher.symbols
    futures,       \* the futures of fetch_all, in the order of submission
    yielded,       \* the futures as_completed has yielded
    stock_data,    \* fetcher.stock_data
    failed_symbols, \* fetcher.failed_symbols
    csv_saved,     \* whether save_to_csv wrote the CSV
    failed_file,   \* failed_symbols.csv
    exit_code,     \* exit status of the process, -1 while it runs
    et_pc,         \* ensure_token.main: "idle", "start", "check", "login", "secret", "done"
    et_force,      \* --force
    api_key_file,  \* api_key.txt
    token_file,    \* access_token.txt
    kite_ok,       \* whether Kite accepts the token stored at the start
    et_validated,  \* _token_is_valid: "not called", "valid", "invalid"
    et_login,      \* _run_auto_login: "not run", "None", "token"
    et_secret,     \* _update_github_secret: "not run", "ok", "failed"
    et_return,     \* what main returned, -1 before it returns
    instr_sheet,   \* GTTApplication.run: the instruction sheet from row 2 on
    wiring,        \* what the injected fetchers return: "pair" or "rows"
    cfg_batch,     \* config.BATCH_SIZE
    cur_start_row, \* start_row of run
    app_pc,        \* "idle", "loop", "ended" (final statistics logged), "raised"
    total_stats,   \* total_stats of run
    handed,        \* the calls of process_instruction: row number, instruction, statuses
    failed_log,    \* the failed_rows of every ProcessingResult returned, in order
    all_ok_logged, \* whether 'All rows processed successfully!' was logged
    nm_pc,         \* type matching: "idle", "start", "normalized", "matched"
    nm_instr_type, \* the TYPE cell of the instruction
    nm_data_type,  \* the TYPE cell of the data row
    nm_norm,       \* normalize_for_matching of the two cells, <<>> before the calls
    nm_match,      \* match_for_update: "not called", "match", "no match"
    up_pc,         \* upload_to_sheets: "idle", "open", "upload", "returned", "RuntimeError", "failed"
    up_data,       \* data: the header and the rows of df
    up_initial,    \* initial_batch_size
    up_sheet,      \* the rows of the worksheet
    up_batch_size, \* batch_size
    up_i,          \* i
    up_current,    \* current_batch
    up_attempt,    \* attempt
    up_calls,      \* calls of worksheet.update for the current batch
    up_shrunk_at   \* the values of i at which batch_size was reduced

tvars == <<bank_inc, bank_new, new_rows, bank_final, final_rows, runs, run_end,
           run_report, api_ok, append_failed>>

pvars == <<scan_sheet, scan_rows, scan_keys, scan_page_size, scan_failed, scan_result,
           scan_pc>>

bvars == <<batch_updates, batch_size, tele_calls, etl_calls, batch_done>>

gvars == <<instr, data_rows, data_sheet, gtt_env, broker_calls, status_calls, data_ops,
           gtt_pc>>

evars == <<etl_src, etl_new, etl_fmt, etl_runs, etl_appended>>

rvars == <<rt_attempts, rt_i, rt_calls, rt_end, rt_value>>

nvars == <<nse_pc, nse_mode, ticker_file, max_workers, symbols, futures, yielded,
           stock_data, failed_symbols, csv_saved, failed_file, exit_code>>

kvars == <<et_pc, et_force, api_key_file, token_file, kite_ok, et_validated, et_login,
           et_secret, et_return>>

jvars == <<instr_sheet, wiring, cfg_batch, cur_start_row, app_pc, total_stats, handed,
           failed_log, all_ok_logged>>

mvars == <<nm_pc, nm_instr_type, nm_data_type, nm_norm, nm_match>>

uvars == <<up_pc, up_data, up_initial, up_sheet, up_batch_size, up_i, up_current, up_attempt,
           up_calls, up_shrunk_at>>

zvars == <<mvars, uvars>>

\* the variables of the other scripts
xvars == <<rvars, nvars, kvars, jvars, zvars>>

vars == <<tvars, pvars, bvars, gvars, evars, xvars>>

\* _call_with_retries has not been called
RIdle ==
    /\ rt_attempts = GSHEETS_MAX_RETRIES
    /\ rt_i = 0
    /\ rt_calls = <<>>
    /\ rt_end = "idle"
    /\ rt_value = <<>>

\* nse_combined_fetcher.py is not running
NIdle ==
    /\ nse_pc = "idle"
    /\ nse_mode = "stock"
    /\ ticker_file = "absent"
    /\ max_workers = DEFAULT_MAX_WORKERS
    /\ symbols = <<>>
    /\ futures = <<>>
    /\ yielded = {}
    /\ stock_data = <<>>
    /\ failed_symbols = <<>>
    /\ csv_saved = FALSE
    /\ failed_file = NoFile
    /\ exit_code = -1

\* ensure_token.py is not running
KIdle ==
    /\ et_pc = "idle"
    /\ et_force = FALSE
    /\ api_key_file = NoFile
    /\ token_file = NoFile
    /\ kite_ok = FALSE
    /\ et_validated = "not called"
    /\ et_login = "not run"
    /\ et_secret = "not run"
    /\ et_return = -1

NoStats == [total_processed |-> 0, failed_rows |-> <<>>, conflict_rows |-> <<>>]

\* gtt_main.py is not running
JIdle ==
    /\ instr_sheet = <<>>
    /\ wiring = "pair"
    /\ cfg_batch = BATCH_SIZE
    /\ cur_start_row = 2
    /\ app_pc = "idle"
    /\ total_stats = NoStats
    /\ handed = <<>>
    /\ failed_log = <<>>
    /\ all_ok_logged = FALSE

\* no types are being matched
MIdle ==
    /\ nm_pc = "idle"
    /\ nm_instr_type = Blank
    /\ nm_data_type = Blank
    /\ nm_norm = <<>>
    /\ nm_match = "not called"

\* upload_to_sheets has not been called
UIdle ==
    /\ up_pc = "idle"
    /\ up_data = <<>>
    /\ up_initial = 200
    /\ up_sheet = <<>>
    /\ up_batch_size = 200
    /\ up_i = 0
    /\ up_current = <<>>
    /\ up_attempt = 0
    /\ up_calls = 0
    /\ up_shrunk_at = {}

ZIdle == MIdle /\ UIdle

XIdle == RIdle /\ NIdle /\ KIdle /\ JIdle /\ ZIdle

NoScan == [found |-> EmptyMap, pages |-> <<>>]

\* no scan is under way
PIdle ==
    /\ scan_sheet = <<>>
    /\ scan_rows = 0
    /\ scan_keys = <<>>
    /\ scan_page_size = DEFAULT_PAGE_SIZE
    /\ scan_failed = {}
    /\ scan_result = NoScan
    /\ scan_pc = "idle"

\* no run of the ETL is under way
EIdle ==
    /\ etl_src = <<>>
    /\ etl_new = <<>>
    /\ etl_fmt = "auto"
    /\ etl_runs = 0
    /\ etl_appended = 0

NEW_GTT_ID == "g9"

NoEnv == [broker_ok |-> TRUE, sheet_fault |-> "none", gtt_id |-> NEW_GTT_ID]

NoInstruction ==
    [ticker |-> "", type |-> Blank, units |-> 0, gtt_price |-> 0, tick_size |-> 0,
     action |-> "UNKNOWN", gtt_date |-> "", row_number |-> 0]

\* no instruction is being processed
GIdle ==
    /\ instr = NoInstruction
    /\ data_rows = <<>>
    /\ data_sheet = <<>>
    /\ gtt_env = NoEnv
    /\ broker_calls = <<>>
    /\ status_calls = <<>>
    /\ data_ops = <<>>
    /\ gtt_pc = "idle"

\* no overwrite is under way
BIdle ==
    /\ batch_updates = <<>>
    /\ batch_size = DEFAULT_BATCH_UPDATE_SIZE
    /\ tele_calls = <<>>
    /\ etl_calls = <<>>
    /\ batch_done = {}

\* no run of the teleporter is under way
TIdle ==
    /\ bank_inc = <<>>
    /\ bank_new = <<>>
    /\ new_rows = 0
    /\ bank_final = <<>>
    /\ final_rows = 0
    /\ runs = 0
    /\ run_end = "none"
    /\ run_report = NoReport
    /\ api_ok = 0
    /\ append_failed = 0

\* none of the five scripts above is under way
OldIdle == PIdle /\ EIdle /\ GIdle /\ BIdle /\ TIdle

oldvars == <<tvars, pvars, bvars, gvars, evars>>

(* ------------------------------------------------------------------ *)
(* Sheets the runs start from                                           *)
(* ------------------------------------------------------------------ *)
DateCell == <<"d">>
SymA == <<"a">>
SymAPadded == <<" ", "a">>
SymB == <<"b">>
SymC == <<"c">>
TypeCell == <<"t">>
FormulaCell == <<"=">>

MkRow(sym, v, t, f) == <<DateCell, sym, v, v, v, v, t, f, f>>

HeaderRow == PadRow(<<<<"D", "a", "t", "e">>, <<"S", "Y", "M", "B", "O", "L">>>>, SHEET_COLS)

IncRowPool == {PadRow(<<DateCell, sym>>, SHEET_COLS) : sym \in {SymAPadded, SymB}}

NewRowPool ==
    {MkRow(SymA, <<"2">>, Blank, Blank), MkRow(SymAPadded, <<"1">>, TypeCell, Blank),
     MkRow(SymB, <<"1">>, TypeCell, Blank)}

FinalRowPool ==
    {MkRow(SymA, <<"1">>, TypeCell, Blank), MkRow(SymB, <<"2">>, TypeCell, FormulaCell),
     MkRow(SymC, <<"1">>, TypeCell, FormulaCell)}

TInit ==
    /\ \E ks \in SeqsUpTo(IncRowPool, MaxInc) : bank_inc = <<HeaderRow>> \o ks
    /\ bank_new \in SeqsUpTo(NewRowPool, MaxNew)
    /\ new_rows = Len(bank_new)
    /\ bank_final \in SeqsUpTo(FinalRowPool, MaxFinal)
    /\ final_rows \in {Len(bank_final), Len(bank_final) + SpareRuns * ROW_BUFFER}
    /\ runs = 0
    /\ run_end = "none"
    /\ run_report = NoReport
    /\ api_ok = 0
    /\ append_failed = 0
    /\ PIdle
    /\ BIdle
    /\ GIdle
    /\ EIdle
    /\ XIdle

(* ------------------------------------------------------------------ *)
(* Actions                                                              *)
(* ------------------------------------------------------------------ *)
FailSets == SUBSET ((1..MaxFailCall) \X (1..MaxFailPage))

\* append_rows attempts that raise before one succeeds: none, one, all but the
\* last, all
AppendFailChoices == {0, 1, MAX_RETRIES - 1, MAX_RETRIES}

\* one run of data_teleporter.py
Replicate ==
    /\ runs < MaxRuns
    /\ \E failed \in FailSets, append_fails \in AppendFailChoices :
          \E r \in {replicate_bank_new_to_dest(bank_inc, bank_new, new_rows, bank_final,
                       final_rows, DEFAULT_PAGE_SIZE, DEFAULT_BATCH_UPDATE_SIZE,
                       DEFAULT_APPEND_CHUNK, failed, append_fails)} :
              /\ bank_final' = r.final
              /\ final_rows' = r.rows
              /\ run_end' = r.end
              /\ run_report' = r.report
              /\ api_ok' = IF failed = {} /\ append_fails = 0 THEN api_ok + 1 ELSE 0
              /\ append_failed' = append_fails
    /\ runs' = runs + 1
    /\ UNCHANGED <<bank_inc, bank_new, new_rows>>
    /\ UNCHANGED <<pvars, bvars, gvars, evars, xvars>>

TNext == Replicate

SpecTeleport == TInit /\ [][TNext]_vars

(* ------------------------------------------------------------------ *)
(* Properties of replicate_bank_new_to_dest                             *)
(* ------------------------------------------------------------------ *)
IncKeys == Range(read_inc_keys(bank_inc))

KeyRows(sheet, k) == {i \in 1..Len(sheet) : RowKey(sheet[i]) = k}

SheetKeys(sheet) == {RowKey(sheet[i]) : i \in 1..Len(sheet)}

ColsAG(row) == SubSeq(PadRow(row, SHEET_COLS), 1, LAST_COL)

DataAG(sheet) == [i \in 1..Len(sheet) |-> ColsAG(sheet[i])]

FrameRows(sheet) == SelectSeq(DataAG(sheet), LAMBDA r : RowKey(r) \notin IncKeys)

AllCallsOk == api_ok >= 1

\* C1: a second run in a row with every API call succeeding leaves BANK_FINAL
\* as the first run left it.
C1_Idempotent ==
    [][(api_ok >= 1 /\ api_ok' = api_ok + 1) => bank_final' = bank_final]_vars

\* C2: in every run, page read failures included, the number of BANK_FINAL rows
\* that hold a key already present does not grow.
C2_NoKeyGrowth ==
    [][\A k \in SheetKeys(bank_final) :
          Cardinality(KeyRows(bank_final', k)) <= Cardinality(KeyRows(bank_final, k))]_vars

\* C3: after a run in which every API call succeeded, each BANK_INC key that
\* occurs in BANK_NEW has a BANK_FINAL row equal in A..G to the lowest-index
\* BANK_NEW row of that key, and the verification counted no mismatch.
C3_PayloadInFinal ==
    (AllCallsOk /\ run_end = "done") =>
        /\ \A k \in IncKeys \cap SheetKeys(bank_new) :
              \E i \in KeyRows(bank_final, k) :
                  ColsAG(bank_final[i]) = ColsAG(bank_new[SetMin(KeyRows(bank_new, k))])
        /\ run_report.verification_mismatches = 0

\* C4: a run never deletes a BANK_FINAL row whose key is not in BANK_INC and
\* never changes its columns A..G.
C4_Frame ==
    [][FrameRows(bank_final') = FrameRows(bank_final)]_vars

C4_Witness ==
    /\ run_end = "done"
    /\ run_report.overwrites >= 1
    /\ run_report.appends >= 1
    /\ FrameRows(bank_final) # <<>>

\* C15: a run in which every API call succeeded leaves each processed key that
\* occurred in more than one BANK_FINAL row in exactly one row.
C15_DuplicatesRemoved ==
    [][(api_ok' = api_ok + 1 /\ run_end' = "done") =>
          \A k \in IncKeys \cap SheetKeys(bank_new) :
              Cardinality(KeyRows(bank_final, k)) > 1 =>
                  Cardinality(KeyRows(bank_final', k)) = 1]_vars

\* C20: a run raises in step 8 only when all MAX_RETRIES append_rows attempts
\* of a chunk failed; when an attempt succeeded, the last one included, the
\* run goes on to its end.
C20_RaiseOnlyWhenAllFail == run_end = "raised" => append_failed = MAX_RETRIES

(* ------------------------------------------------------------------ *)
(* find_keys_in_sheet_paged on its own                                  *)
(* ------------------------------------------------------------------ *)
BlankKey == <<Blank, Blank>>

ScanRowPool ==
    {PadRow(<<DateCell, SymA>>, SHEET_COLS), PadRow(<<DateCell, SymAPadded>>, SHEET_COLS),
     PadRow(<<DateCell, SymB>>, SHEET_COLS), BlankRow}

ScanKeyPool == {<<DateCell, SymA>>, <<DateCell, SymB>>, <<DateCell, SymC>>, BlankKey}

PInit ==
    /\ scan_sheet \in SeqsUpTo(ScanRowPool, MaxScanRows)
    /\ scan_rows \in {Len(scan_sheet), Len(scan_sheet) + 1}
    /\ scan_keys \in SeqsUpTo(ScanKeyPool, MaxScanKeys)
    /\ scan_page_size \in 1..MaxPageSize
    /\ scan_failed = {}
    /\ scan_result = NoScan
    /\ scan_pc = "ready"
    /\ TIdle
    /\ BIdle
    /\ GIdle
    /\ EIdle
    /\ XIdle

\* one call of find_keys_in_sheet_paged
FindKeys ==
    /\ scan_pc = "ready"
    /\ \E failed \in SUBSET (1..MaxFailPage) :
          /\ scan_failed' = failed
          /\ scan_result' = find_keys_in_sheet_paged(scan_sheet, scan_rows, scan_keys,
                                                     scan_page_size, failed)
    /\ scan_pc' = "done"
    /\ UNCHANGED <<scan_sheet, scan_rows, scan_keys, scan_page_size>>
    /\ UNCHANGED <<tvars, bvars, gvars, evars, xvars>>

PNext == FindKeys

SpecPaged == PInit /\ [][PNext]_vars

\* one scan of A1:B{row_count}: the rows at which key k occurs
FullOcc(k) ==
    {i \in 1..Len(SheetGet(scan_sheet, 1, scan_rows, 1, 2)) :
        RowKey(SheetGet(scan_sheet, 1, scan_rows, 1, 2)[i]) = k}

FullScan ==
    [k \in {x \in Range(scan_keys) : FullOcc(x) # {}} |-> <<SetMin(FullOcc(k))>>]

\* the pages start at row 1, follow one another without gap or overlap, stay in
\* the grid, and each is read only while some requested key has not occurred
\* in the rows before it
PagesInOrder ==
    \A i \in 1..Len(scan_result.pages) :
        /\ scan_result.pages[i][1] = (IF i = 1 THEN 1 ELSE scan_result.pages[i - 1][2] + 1)
        /\ scan_result.pages[i][1] <= scan_result.pages[i][2]
        /\ scan_result.pages[i][2] <= scan_rows
        /\ \E k \in Range(scan_keys) :
              \A r \in FullOcc(k) : r >= scan_result.pages[i][1]

PagedAsFullScan == scan_result.found = FullScan /\ PagesInOrder

\* C5 as stated: for every set of requested keys, when all page reads succeed
\* the paged scan returns what one scan of A1:B{row_count} returns (the
\* requested keys that occur, each with its lowest row), its pages are
\* consecutive and non-overlapping and none is read after the last key is found.
C5_PagedEqualsFullScan ==
    (scan_pc = "done" /\ scan_failed = {}) => PagedAsFullScan

\* C5 amended: the same for requested keys other than the blank key ("", "").
C5_PagedEqualsFullScanNonBlank ==
    (scan_pc = "done" /\ scan_failed = {} /\ BlankKey \notin Range(scan_keys))
        => PagedAsFullScan

C5_Witness ==
    /\ scan_pc = "done"
    /\ scan_failed = {}
    /\ BlankKey \notin Range(scan_keys)
    /\ Len(scan_result.pages) >= 2
    /\ scan_result.pages[Len(scan_result.pages)][2] < Len(scan_sheet)
    /\ \E k \in DOMAIN scan_result.found : scan_result.found[k][1] >= 2
    /\ \E k \in DOMAIN scan_result.found : Cardinality(FullOcc(k)) >= 2

(* ------------------------------------------------------------------ *)
(* Contiguous-run batching: batch_overwrite_rows and apply_overwrites   *)
(* ------------------------------------------------------------------ *)
PayloadPool == {<<DateCell, SymA>>, <<DateCell, SymB>>}

BInit ==
    /\ batch_updates \in {u \in SeqsUpTo((1..MaxUpdRow) \X PayloadPool, MaxUpd) :
                            \A i, j \in 1..Len(u) : u[i][1] = u[j][1] => i = j}
    /\ batch_size \in 1..MaxBatch
    /\ tele_calls = <<>>
    /\ etl_calls = <<>>
    /\ batch_done = {}
    /\ TIdle
    /\ PIdle
    /\ GIdle
    /\ EIdle
    /\ XIdle

\* data_teleporter.py: one call of batch_overwrite_rows
BatchOverwriteRows ==
    /\ "tele" \notin batch_done
    /\ tele_calls' = batch_overwrite_calls(batch_updates, batch_size)
    /\ batch_done' = batch_done \cup {"tele"}
    /\ UNCHANGED <<batch_updates, batch_size, etl_calls>>
    /\ UNCHANGED <<tvars, pvars, gvars, evars, xvars>>

\* nse_data_etl.py: one call of apply_overwrites
ApplyOverwrites ==
    /\ "etl" \notin batch_done
    /\ etl_calls' = apply_overwrites_calls(batch_updates)
    /\ batch_done' = batch_done \cup {"etl"}
    /\ UNCHANGED <<batch_updates, batch_size, tele_calls>>
    /\ UNCHANGED <<tvars, pvars, gvars, evars, xvars>>

BNext == BatchOverwriteRows \/ ApplyOverwrites

SpecBatch == BInit /\ [][BNext]_vars

\* every call covers a run of consecutive rows, one values row per row of its
\* range, the k-th values row being the update destined for the k-th row; every
\* update lies in the range of exactly one call
RunsOnTarget(calls) ==
    /\ \A n \in 1..Len(calls) :
          /\ Len(calls[n][3]) >= 1
          /\ calls[n][2] = calls[n][1] + Len(calls[n][3]) - 1
          /\ \A k \in 1..Len(calls[n][3]) :
                \E j \in 1..Len(batch_updates) :
                    /\ batch_updates[j][1] = calls[n][1] + k - 1
                    /\ batch_updates[j][2] = calls[n][3][k]
    /\ \A j \in 1..Len(batch_updates) :
          Cardinality({n \in 1..Len(calls) :
                          /\ calls[n][1] <= batch_updates[j][1]
                          /\ batch_updates[j][1] <= calls[n][2]}) = 1

\* C6: for updates with distinct row indices, batch_overwrite_rows and
\* apply_overwrites issue update calls that each cover a run of consecutive
\* rows (at most batch_size rows per call in batch_overwrite_rows), every
\* update is in exactly one call, and the k-th values row of a call is the one
\* destined for the k-th row of its range.
C6_RunsOnTarget ==
    /\ "tele" \in batch_done =>
          /\ RunsOnTarget(tele_calls)
          /\ \A n \in 1..Len(tele_calls) : Len(tele_calls[n][3]) <= batch_size
    /\ "etl" \in batch_done => RunsOnTarget(etl_calls)

C6_Witness ==
    /\ batch_done = {"tele", "etl"}
    /\ Len(batch_updates) >= 3
    /\ batch_updates[1][1] > batch_updates[2][1]
    /\ Len(etl_calls) = 2
    /\ Len(tele_calls) > Len(etl_calls)
    /\ \E n \in 1..Len(etl_calls) : Len(etl_calls[n][3]) >= 2

(* ------------------------------------------------------------------ *)
(* GTTProcessor.process_instruction                                     *)
(* ------------------------------------------------------------------ *)
TypePool == {Blank, <<"K", "W", "K">>, <<"B", "U", "Y">>, <<"T", "S", "L">>}

InstructionPool ==
    [ticker : {"", "NSE:X"}, type : TypePool, units : {0, 1, 2}, gtt_price : {0, 1},
     tick_size : {0, 1}, action : ActionType, gtt_date : {"d1"}, row_number : {2}]

DataRowPool ==
    [ticker : {"NSE:X"}, type : {<<"K", "W", "K">>, <<"T", "S", "L">>}, units : {1, 2},
     gtt_price : {1}, gtt_date : {"d0"}, gtt_id : {"", "g1"}]

GInit ==
    /\ instr \in InstructionPool
    /\ data_rows \in SeqsUpTo(DataRowPool, MaxDataRows)
    /\ data_sheet = data_rows
    /\ gtt_env = NoEnv
    /\ broker_calls = <<>>
    /\ status_calls = <<>>
    /\ data_ops = <<>>
    /\ gtt_pc = "ready"
    /\ TIdle
    /\ PIdle
    /\ BIdle
    /\ EIdle
    /\ XIdle

\* one call of process_instruction
ProcessInstruction ==
    /\ gtt_pc = "ready"
    /\ \E broker_ok \in BOOLEAN, sheet_fault \in {"none", "read", "write"} :
          \E o \in {process_instruction(instr, data_rows, data_sheet,
                        [broker_ok |-> broker_ok, sheet_fault |-> sheet_fault,
                         gtt_id |-> NEW_GTT_ID])} :
              /\ gtt_env' = [broker_ok |-> broker_ok, sheet_fault |-> sheet_fault,
                             gtt_id |-> NEW_GTT_ID]
              /\ broker_calls' = broker_calls \o o.broker
              /\ status_calls' = status_calls \o o.status
              /\ data_ops' = data_ops \o o.ops
              /\ data_sheet' = o.sheet
    /\ gtt_pc' = "done"
    /\ UNCHANGED <<instr, data_rows>>
    /\ UNCHANGED <<tvars, pvars, bvars, evars, xvars>>

GNext == ProcessInstruction

SpecGTT == GInit /\ [][GNext]_vars

\* what the step added to the logs
NewBroker == SubSeq(broker_calls', Len(broker_calls) + 1, Len(broker_calls'))

NewStatus == SubSeq(status_calls', Len(status_calls) + 1, Len(status_calls'))

NewOps == SubSeq(data_ops', Len(data_ops) + 1, Len(data_ops'))

DataSheetWrites(ops) ==
    SelectSeq(ops, LAMBDA op : op[1] \in {"append_data_row", "update_data_row",
                                          "delete_data_row"})

BrokerMethod(action) ==
    CASE action = "PLACE" -> "place_gtt" [] action = "UPDATE" -> "modify_gtt"
      [] action = "DELETE" -> "delete_gtt" [] OTHER -> "none"

FailsValidation ==
    \/ instr.ticker = ""
    \/ instr.type = Blank
    \/ instr.action = "UNKNOWN"
    \/ instr.units <= 0
    \/ instr.gtt_price <= 0

Untouched == NewBroker = <<>> /\ NewOps = <<>> /\ data_sheet' = data_sheet

\* C7: process_instruction makes at most one broker call, of the kind named by
\* the instruction's action; an instruction that fails validation causes no
\* broker call and no write to the data sheet.
C7_OneBrokerCallOfKind ==
    [][gtt_pc' = "done" =>
          /\ Len(NewBroker) <= 1
          /\ \A n \in 1..Len(NewBroker) : NewBroker[n][1] = BrokerMethod(instr.action)
          /\ FailsValidation =>
                /\ NewBroker = <<>>
                /\ DataSheetWrites(NewOps) = <<>>
                /\ data_sheet' = data_sheet]_vars

C7_Witness ==
    /\ gtt_pc = "done"
    /\ instr.action = "DELETE"
    /\ Len(broker_calls) = 1
    /\ Len(data_rows) = 2
    /\ data_sheet # data_rows

\* the data rows matching an UPDATE or DELETE instruction
Matches == find_matching_rows(instr, data_rows, instr.action = "UPDATE")

\* C8: an UPDATE or DELETE instruction that passed validation calls the broker
\* only when exactly one data row matches and that row has a GTT_ID; with no
\* match the status is 'no match found', with several 'conflict: multiple
\* matches', with one match without GTT_ID 'no gtt_id to update' or 'no gtt_id
\* to delete', and in these cases neither broker nor data sheet is touched.
C8_MatchGuard ==
    [][(gtt_pc' = "done" /\ instr.action \in {"UPDATE", "DELETE"} /\ ~FailsValidation) =>
          /\ NewBroker # <<>> => (Len(Matches) = 1 /\ Matches[1].gtt_id # "")
          /\ Len(Matches) = 0 =>
                (NewStatus = <<StatusMessages.NO_MATCH_FOUND>> /\ Untouched)
          /\ Len(Matches) > 1 =>
                (NewStatus = <<StatusMessages.MULTIPLE_MATCHES>> /\ Untouched)
          /\ (Len(Matches) = 1 /\ Matches[1].gtt_id = "") =>
                /\ NewStatus = <<IF instr.action = "UPDATE"
                                  THEN StatusMessages.NO_GTT_ID_UPDATE
                                  ELSE StatusMessages.NO_GTT_ID_DELETE>>
                /\ Untouched]_vars

C8_Witness ==
    /\ gtt_pc = "done"
    /\ instr.action = "UPDATE"
    /\ Len(data_rows) = 2
    /\ Len(Matches) = 1
    /\ Matches[1].gtt_id = ""
    /\ status_calls = <<StatusMessages.NO_GTT_ID_UPDATE>>

\* the PLACE step of an instruction that passed validation
PlaceStep == gtt_pc' = "done" /\ instr.action = "PLACE" /\ ~FailsValidation

Duplicates == find_matching_rows(instr, data_rows, FALSE)

PlacedOnce ==
    /\ Len(NewBroker) = 1
    /\ NewBroker[1][1] = "place_gtt"

C18_UnknownActionStatus ==
    [][(/\ gtt_pc' = "done"
        /\ instr.action = "UNKNOWN"
        /\ instr.ticker # ""
        /\ instr.type # Blank
        /\ instr.units > 0
        /\ instr.gtt_price > 0) =>
          NewStatus = <<StatusMessages.UNKNOWN_ACTION>>]_vars

\* C19: an UPDATE instruction whose units and GTT price equal those of its
\* single matching data row (which has a GTT_ID) gets 'no update needed' and
\* no modify_gtt call is made.
C19_NoUpdateNeeded ==
    [][(/\ gtt_pc' = "done"
        /\ instr.action = "UPDATE"
        /\ ~FailsValidation
        /\ Len(Matches) = 1
        /\ Matches[1].gtt_id # ""
        /\ Matches[1].units = instr.units
        /\ Matches[1].gtt_price = instr.gtt_price) =>
          /\ NewStatus = <<StatusMessages.NO_UPDATE_NEEDED>>
          /\ NewBroker = <<>>]_vars

(* ------------------------------------------------------------------ *)
(* nse_data_etl.py: runs of process_and_update on the same source data  *)
(* ------------------------------------------------------------------ *)
SourcePool ==
    [date : {<<2025, 7, 15>>, <<2025, 7, 16>>}, symbol : {"NSE:A", "NSE:B"}, close : {0, 5}]

BankNewPool ==
    [kind : {"text", "date"}, date : {<<2025, 7, 15>>}, symbol : {"NSE:A"}, close : {3}]

EInit ==
    /\ etl_src \in SeqsUpTo(SourcePool, MaxEtlSrc)
    /\ etl_new \in SeqsUpTo(BankNewPool, MaxEtlNew)
    /\ etl_fmt \in {"auto", "dd-mmm-yyyy"}
    /\ etl_runs = 0
    /\ etl_appended = 0
    /\ TIdle
    /\ PIdle
    /\ BIdle
    /\ GIdle
    /\ XIdle

\* one run of process_and_update; format_ok: format_cell_range does not raise
ProcessAndUpdate ==
    /\ etl_runs < MaxEtlRuns
    /\ \E format_ok \in BOOLEAN :
          \E r \in {process_and_update(etl_src, etl_new, etl_fmt, format_ok)} :
              /\ etl_new' = r.sheet
              /\ etl_fmt' = r.fmt
              /\ etl_appended' = r.appended
    /\ etl_runs' = etl_runs + 1
    /\ UNCHANGED etl_src
    /\ UNCHANGED <<tvars, pvars, bvars, gvars, xvars>>

ENext == ProcessAndUpdate

SpecETL == EInit /\ [][ENext]_vars

\* the values of the rows, whether the date cell is text or a date
RowValues(sheet) ==
    [i \in 1..Len(sheet) |-> <<sheet[i].date, sheet[i].symbol, sheet[i].close>>]

\* C10: a run of process_and_update that follows a run on the same source data
\* adds no row to BANK_NEW and leaves its rows as the earlier run left them.
C10_UpsertIdempotent ==
    [][(etl_runs >= 1 /\ etl_runs' = etl_runs + 1) =>
          /\ etl_appended' = 0
          /\ RowValues(etl_new') = RowValues(etl_new)]_vars

(* ------------------------------------------------------------------ *)
(* google_sheets_utils.py: one call of _call_with_retries               *)
(* ------------------------------------------------------------------ *)
OutcomePool ==
    ({"ok"} \X {"v1", "v2"}) \cup ({"APIError"} \X {429, 500, 502, 503, 504, 400, 0})
        \cup {<<"Exception", 0>>}

RInit ==
    /\ rt_attempts \in (0..MaxRetryEnv) \cup {GSHEETS_MAX_RETRIES}
    /\ rt_i = 0
    /\ rt_calls = <<>>
    /\ rt_end = "running"
    /\ rt_value = <<>>
    /\ OldIdle
    /\ ZIdle
    /\ NIdle
    /\ KIdle
    /\ JIdle

\* one pass of the for loop: fn is called; its result is returned, or its error
\* is re-raised, or the loop sleeps and goes on
CallAttempt ==
    /\ rt_end = "running"
    /\ rt_i < rt_attempts
    /\ \E out \in OutcomePool :
          /\ rt_calls' = Append(rt_calls, out)
          /\ IF out[1] = "ok"
                THEN rt_end' = "returned" /\ rt_value' = out /\ rt_i' = rt_i
                ELSE IF rt_i = rt_attempts - 1 \/ ~_is_retriable(out)
                       THEN rt_end' = "raised" /\ rt_value' = out /\ rt_i' = rt_i
                       ELSE rt_end' = "running" /\ rt_value' = rt_value /\ rt_i' = rt_i + 1
    /\ UNCHANGED rt_attempts
    /\ UNCHANGED <<oldvars, nvars, kvars, jvars, zvars>>

\* range(attempts) is exhausted without a return or a raise: the function falls
\* off its end and returns None
LoopExhausted ==
    /\ rt_end = "running"
    /\ rt_i >= rt_attempts
    /\ rt_end' = "returned"
    /\ rt_value' = <<"None">>
    /\ UNCHANGED <<rt_attempts, rt_i, rt_calls>>
    /\ UNCHANGED <<oldvars, nvars, kvars, jvars, zvars>>

RNext == CallAttempt \/ LoopExhausted

SpecRetry == RInit /\ [][RNext]_vars

RetriableError(e) == e[1] = "APIError" /\ e[2] \in {429, 500, 502, 503, 504}

\* C11: fn is called at most GSHEETS_MAX_RETRIES (attempts) times; every call
\* but the last raised an APIError with status 429, 500, 502, 503 or 504; a
\* call that succeeds ends the loop and its result is what is returned; any
\* other error, and the error of the last allowed attempt, is re-raised at once.
C11_Retries ==
    \E n \in {Len(rt_calls)} :
        /\ n <= rt_attempts
        /\ \A j \in 1..(n - 1) : RetriableError(rt_calls[j])
        /\ (rt_end = "returned" /\ n > 0) => (rt_calls[n][1] = "ok" /\ rt_value = rt_calls[n])
        /\ rt_end = "raised" => (n > 0 /\ rt_calls[n][1] # "ok" /\ rt_value = rt_calls[n])
        /\ (n > 0 /\ rt_calls[n][1] = "ok") => rt_end = "returned"
        /\ (n > 0 /\ rt_calls[n][1] # "ok" /\ ~RetriableError(rt_calls[n])) => rt_end = "raised"
        /\ (n > 0 /\ n = rt_attempts /\ rt_calls[n][1] # "ok") => rt_end = "raised"

\* every one of the six default attempts failed with a retriable error
C11_Witness ==
    /\ rt_attempts = GSHEETS_MAX_RETRIES
    /\ Len(rt_calls) = GSHEETS_MAX_RETRIES
    /\ rt_end = "raised"
    /\ RetriableError(rt_value)

(* ------------------------------------------------------------------ *)
(* nse_combined_fetcher.py: one run of main                             *)
(* ------------------------------------------------------------------ *)
SymbolPool == {"NSE:A", "NSE:B"}

NInit ==
    /\ nse_pc = "load"
    /\ nse_mode \in {"stock", "etf"}
    /\ ticker_file \in {"absent", "given", "missing"}
    /\ max_workers \in (0..MaxWorkers) \cup {DEFAULT_MAX_WORKERS}
    /\ symbols = <<>>
    /\ futures = <<>>
    /\ yielded = {}
    /\ stock_data = <<>>
    /\ failed_symbols = <<>>
    /\ csv_saved = FALSE
    /\ failed_file = NoFile
    /\ exit_code = -1
    /\ OldIdle
    /\ ZIdle
    /\ RIdle
    /\ KIdle
    /\ JIdle

\* main up to the fetch: load_symbols, and sys.exit(1) when it raises
LoadSymbols ==
    /\ nse_pc = "load"
    /\ \E download_ok \in BOOLEAN, loaded \in SeqsUpTo(SymbolPool, MaxSymbols) :
          IF load_symbols(nse_mode, ticker_file, download_ok) = "raise"
          THEN nse_pc' = "exit" /\ exit_code' = 1 /\ symbols' = symbols
          ELSE nse_pc' = "fetch" /\ exit_code' = exit_code /\ symbols' = loaded
    /\ UNCHANGED <<nse_mode, ticker_file, max_workers, futures, yielded, stock_data,
                   failed_symbols, csv_saved, failed_file>>
    /\ UNCHANGED <<oldvars, rvars, kvars, jvars, zvars>>

\* fetch_all up to the submissions; ThreadPoolExecutor raises ValueError when
\* max_workers is not positive, which nothing in main catches
FetchAllBegin ==
    /\ nse_pc = "fetch"
    /\ stock_data' = <<>>
    /\ failed_symbols' = <<>>
    /\ IF Len(symbols) = 0
         THEN nse_pc' = "csv" /\ exit_code' = exit_code /\ futures' = futures
         ELSE IF max_workers <= 0
                THEN nse_pc' = "exit" /\ exit_code' = 1 /\ futures' = futures
                ELSE /\ nse_pc' = "fetching"
                     /\ exit_code' = exit_code
                     /\ futures' = [i \in 1..Len(symbols) |-> Submitted]
    /\ UNCHANGED <<nse_mode, ticker_file, max_workers, symbols, yielded, csv_saved,
                   failed_file>>
    /\ UNCHANGED <<oldvars, rvars, kvars, jvars, zvars>>

\* a free worker thread takes the oldest queued work item
WorkerStart(i) ==
    /\ nse_pc = "fetching"
    /\ futures[i].st = "queued"
    /\ \A j \in 1..(i - 1) : futures[j].st # "queued"
    /\ Cardinality({j \in 1..Len(futures) : futures[j].st = "running"}) < max_workers
    /\ futures' = [futures EXCEPT ![i].st = "running"]
    /\ UNCHANGED <<nse_pc, nse_mode, ticker_file, max_workers, symbols, yielded, stock_data,
                   failed_symbols, csv_saved, failed_file, exit_code>>
    /\ UNCHANGED <<oldvars, rvars, kvars, jvars, zvars>>

\* a worker thread makes one attempt for its symbol
FetchAttempt(i) ==
    /\ nse_pc = "fetching"
    /\ futures[i].st = "running"
    /\ \E ok \in BOOLEAN :
          futures' = [futures EXCEPT ![i] = _fetch_with_backoff(futures[i], symbols[i], ok)]
    /\ UNCHANGED <<nse_pc, nse_mode, ticker_file, max_workers, symbols, yielded, stock_data,
                   failed_symbols, csv_saved, failed_file, exit_code>>
    /\ UNCHANGED <<oldvars, rvars, kvars, jvars, zvars>>

\* the main thread: as_completed yields a finished future
Collect(i) ==
    /\ nse_pc = "fetching"
    /\ futures[i].st = "done"
    /\ i \notin yielded
    /\ yielded' = yielded \cup {i}
    /\ \E c \in {collect_result(futures[i].result, symbols[i], stock_data, failed_symbols)} :
          stock_data' = c[1] /\ failed_symbols' = c[2]
    /\ UNCHANGED <<nse_pc, nse_mode, ticker_file, max_workers, symbols, futures, csv_saved,
                   failed_file, exit_code>>
    /\ UNCHANGED <<oldvars, rvars, kvars, jvars, zvars>>

\* as_completed is exhausted and fetch_all returns
FetchAllReturn ==
    /\ nse_pc = "fetching"
    /\ yielded = 1..Len(futures)
    /\ nse_pc' = "csv"
    /\ UNCHANGED <<nse_mode, ticker_file, max_workers, symbols, futures, yielded, stock_data,
                   failed_symbols, csv_saved, failed_file, exit_code>>
    /\ UNCHANGED <<oldvars, rvars, kvars, jvars, zvars>>

\* create_dataframe and save_to_csv, whose failure is logged
SaveCsv ==
    /\ nse_pc = "csv"
    /\ csv_saved' \in BOOLEAN
    /\ nse_pc' = "failed_file"
    /\ UNCHANGED <<nse_mode, ticker_file, max_workers, symbols, futures, yielded, stock_data,
                   failed_symbols, failed_file, exit_code>>
    /\ UNCHANGED <<oldvars, rvars, kvars, jvars, zvars>>

WriteFailedSymbols ==
    /\ nse_pc = "failed_file"
    /\ failed_file' = write_failed_symbols_file(failed_symbols)
    /\ nse_pc' = "upload"
    /\ UNCHANGED <<nse_mode, ticker_file, max_workers, symbols, futures, yielded, stock_data,
                   failed_symbols, csv_saved, exit_code>>
    /\ UNCHANGED <<oldvars, rvars, kvars, jvars, zvars>>

\* upload_to_sheets, whose failure is logged, then the summary and the end
UploadAndSummary ==
    /\ nse_pc = "upload"
    /\ nse_pc' = "exit"
    /\ exit_code' = 0
    /\ UNCHANGED <<nse_mode, ticker_file, max_workers, symbols, futures, yielded, stock_data,
                   failed_symbols, csv_saved, failed_file>>
    /\ UNCHANGED <<oldvars, rvars, kvars, jvars, zvars>>

NNext ==
    \/ LoadSymbols
    \/ FetchAllBegin
    \/ \E i \in 1..Len(futures) : WorkerStart(i) \/ FetchAttempt(i) \/ Collect(i)
    \/ FetchAllReturn
    \/ SaveCsv
    \/ WriteFailedSymbols
    \/ UploadAndSummary

SpecNSE == NInit /\ [][NNext]_vars

\* the submissions of symbol s whose three attempts all raised / not all raised
GaveUp(s) == {i \in 1..Len(symbols) : symbols[i] = s /\ futures[i].raised = attempts}

Fetched(s) == {i \in 1..Len(symbols) : symbols[i] = s /\ futures[i].raised < attempts}

InData(s) == {k \in 1..Len(stock_data) : stock_data[k].Symbol = s}

InFailed(s) == {k \in 1..Len(failed_symbols) : failed_symbols[k] = s}

FetchAllReturned == nse_pc \in {"csv", "failed_file", "upload"} /\ Len(symbols) > 0

C13_FailedFileAlwaysWritten == nse_pc = "exit" => failed_file.exists

(* ------------------------------------------------------------------ *)
(* ensure_token.py: one run of main                                     *)
(* ------------------------------------------------------------------ *)
FilePool(texts) == {NoFile} \cup {[exists |-> TRUE, text |-> t] : t \in texts}

KInit ==
    /\ et_pc = "start"
    /\ et_force \in BOOLEAN
    /\ api_key_file \in FilePool({<<" ">>, <<"k", " ">>})
    /\ token_file \in FilePool({<<" ">>, <<"t">>, <<"t", " ">>})
    /\ kite_ok \in BOOLEAN
    /\ et_validated = "not called"
    /\ et_login = "not run"
    /\ et_secret = "not run"
    /\ et_return = -1
    /\ OldIdle
    /\ ZIdle
    /\ RIdle
    /\ NIdle
    /\ JIdle

\* main, lines 90-94
ReadApiKey ==
    /\ et_pc = "start"
    /\ IF _read_api_key(api_key_file) = "raise"
         THEN et_pc' = "done" /\ et_return' = 2
         ELSE et_pc' = "check" /\ et_return' = et_return
    /\ UNCHANGED <<et_force, api_key_file, token_file, kite_ok, et_validated, et_login,
                   et_secret>>
    /\ UNCHANGED <<oldvars, rvars, nvars, jvars, zvars>>

\* main, lines 96-99
CheckToken ==
    /\ et_pc = "check"
    /\ IF et_force
         THEN et_pc' = "login" /\ et_return' = et_return /\ et_validated' = et_validated
         ELSE IF _token_is_valid(_read_access_token(token_file), kite_ok)
                THEN et_pc' = "done" /\ et_return' = 0 /\ et_validated' = "valid"
                ELSE et_pc' = "login" /\ et_return' = et_return /\ et_validated' = "invalid"
    /\ UNCHANGED <<et_force, api_key_file, token_file, kite_ok, et_login, et_secret>>
    /\ UNCHANGED <<oldvars, rvars, nvars, jvars, zvars>>

\* main, lines 101-104; auto_login.py exits with 0 only after it wrote the token
\* of the new session to access_token.txt
RunAutoLogin ==
    /\ et_pc = "login"
    /\ \E returncode \in {0, 1}, written \in {<<" ">>, <<"n">>} :
          /\ token_file' = IF returncode = 0 THEN [exists |-> TRUE, text |-> written]
                            ELSE token_file
          /\ IF _run_auto_login(returncode, token_file') = <<>>
                THEN et_pc' = "done" /\ et_return' = 1 /\ et_login' = "None"
                ELSE et_pc' = "secret" /\ et_return' = et_return /\ et_login' = "token"
    /\ UNCHANGED <<et_force, api_key_file, kite_ok, et_validated, et_secret>>
    /\ UNCHANGED <<oldvars, rvars, nvars, jvars, zvars>>

\* main, lines 106-109
UpdateSecret ==
    /\ et_pc = "secret"
    /\ \E gh \in {"ok", "not found", "failed"} :
          IF _update_github_secret(_read_access_token(token_file), gh)
          THEN et_return' = 0 /\ et_secret' = "ok"
          ELSE et_return' = 1 /\ et_secret' = "failed"
    /\ et_pc' = "done"
    /\ UNCHANGED <<et_force, api_key_file, token_file, kite_ok, et_validated, et_login>>
    /\ UNCHANGED <<oldvars, rvars, nvars, jvars, zvars>>

KNext == ReadApiKey \/ CheckToken \/ RunAutoLogin \/ UpdateSecret

SpecToken == KInit /\ [][KNext]_vars

\* the API key file holds a key
ApiKeyReadable == api_key_file.exists /\ Strip(api_key_file.text) # <<>>

\* the token stored at the start is one Kite accepts
StoredTokenGood ==
    et_login = "not run" /\ token_file.exists /\ Strip(token_file.text) # <<>> /\ kite_ok

\* auto_login left a non-empty token in access_token.txt
LoginProducedToken ==
    et_login = "token" /\ token_file.exists /\ Strip(token_file.text) # <<>>

\* C14: main returns 0 only if the stored token was validated without --force,
\* or auto_login produced a non-empty token and the secret update succeeded;
\* with --force auto_login is run whatever the stored token; main returns 2
\* when the API key cannot be read, 1 when auto_login or the update fails.
C14_ReturnCodes ==
    et_pc = "done" =>
        /\ et_return \in {0, 1, 2}
        /\ et_return = 0 =>
              \/ ~et_force /\ StoredTokenGood
              \/ LoginProducedToken /\ et_secret = "ok"
        /\ (et_force /\ ApiKeyReadable) => et_login # "not run"
        /\ et_return = 2 <=> ~ApiKeyReadable
        /\ (et_login = "None" \/ et_secret = "failed") => et_return = 1

\* --force with a stored token that Kite accepts: auto_login ran all the same
C14_Witness ==
    /\ et_pc = "done"
    /\ et_force
    /\ kite_ok
    /\ et_login = "token"
    /\ et_validated = "not called"
    /\ et_return = 0

(* ------------------------------------------------------------------ *)
(* extra/gtt_main.py: one run of GTTApplication.run                     *)
(* ------------------------------------------------------------------ *)
RawRow(ticker, type, units, action) ==
    [TICKER |-> ticker, TYPE |-> type, UNITS |-> units, GTT_PRICE |-> 1, TICK_SIZE |-> 0,
     ACTION_ |-> action, GTT_DATE |-> "d1"]

RawPool ==
    {BlankRaw,
     RawRow("", <<"B", "U", "Y">>, 1, <<"P", "L", "A", "C", "E">>),
     RawRow("NSE:X", <<" ", "B", "U", "Y">>, 1, <<"P", "L", "A", "C", "E">>),
     RawRow("NSE:X", <<"T", "S", "L">>, 2, <<"u", "p", "d", "a", "t", "e">>)}

TrackedRow ==
    [ticker |-> "NSE:X", type |-> <<"T", "S", "L">>, units |-> 1, gtt_price |-> 1,
     gtt_date |-> "d0", gtt_id |-> "g1"]

JInit ==
    /\ instr_sheet \in SeqsUpTo(RawPool, MaxInstrRows)
    /\ wiring \in {"pair", "rows"}
    /\ cfg_batch \in (1..MaxCfgBatch) \cup {BATCH_SIZE}
    /\ cur_start_row = 2
    /\ app_pc = "loop"
    /\ total_stats = NoStats
    /\ handed = <<>>
    /\ failed_log = <<>>
    /\ all_ok_logged = FALSE
    /\ instr = NoInstruction
    /\ data_rows = <<>>
    /\ data_sheet \in {<<>>, <<TrackedRow>>}
    /\ gtt_env = NoEnv
    /\ broker_calls = <<>>
    /\ status_calls = <<>>
    /\ data_ops = <<>>
    /\ gtt_pc = "idle"
    /\ TIdle
    /\ PIdle
    /\ BIdle
    /\ EIdle
    /\ RIdle
    /\ NIdle
    /\ KIdle
    /\ ZIdle

\* one pass of the while loop of run: process_batch, then the end of the run
\* (with _log_final_statistics) or the move to the next batch
RunBatch ==
    /\ app_pc = "loop"
    /\ \E broker_ok \in BOOLEAN :
          \E env \in {[broker_ok |-> broker_ok, sheet_fault |-> "none", gtt_id |-> NEW_GTT_ID]} :
          \E r \in {process_batch(cur_start_row,
                        fetcher(read_rows_from_sheet(instr_sheet, BlankRaw, cur_start_row,
                                                     cfg_batch), wiring),
                        fetcher(read_rows_from_sheet(data_sheet, <<>>, cur_start_row,
                                                     cfg_batch), wiring),
                        data_sheet, env)} :
              /\ gtt_env' = env
              /\ data_rows' = r.data_rows
              /\ data_sheet' = r.sheet
              /\ broker_calls' = broker_calls \o r.broker
              /\ status_calls' = status_calls \o r.status
              /\ data_ops' = data_ops \o r.ops
              /\ handed' = handed \o r.handed
              /\ IF r.raised
                    THEN /\ app_pc' = "raised"
                         /\ UNCHANGED <<total_stats, cur_start_row, failed_log, all_ok_logged>>
                    ELSE /\ failed_log' = failed_log \o r.failed_rows
                         /\ IF r.total_processed = 0
                               THEN /\ app_pc' = "ended"
                                    /\ all_ok_logged' = _log_final_statistics(total_stats)
                                    /\ UNCHANGED <<total_stats, cur_start_row>>
                               ELSE /\ app_pc' = "loop"
                                    /\ total_stats' =
                                          [total_processed |->
                                              total_stats.total_processed + r.total_processed,
                                           failed_rows |-> total_stats.failed_rows \o r.failed_rows,
                                           conflict_rows |->
                                              total_stats.conflict_rows \o r.conflict_rows]
                                    /\ cur_start_row' = cur_start_row + r.total_processed
                                    /\ UNCHANGED all_ok_logged
    /\ UNCHANGED <<instr, gtt_pc, instr_sheet, wiring, cfg_batch>>
    /\ UNCHANGED <<tvars, pvars, bvars, evars, rvars, nvars, kvars, zvars>>

JNext == RunBatch

SpecGTTRun == JInit /\ [][JNext]_vars

\* the sheet rows that hold an instruction: TICKER, TYPE and ACTION are filled
InstructionRows ==
    {n + 1 : n \in {m \in 1..Len(instr_sheet) :
                       /\ instr_sheet[m].TICKER # ""
                       /\ Strip(instr_sheet[m].TYPE) # Blank
                       /\ Strip(instr_sheet[m].ACTION_) # Blank}}

HandedFor(row) == {h \in 1..Len(handed) : handed[h].row_number = row}

\* C16: when the run is over, each instruction row of the sheet has been
\* handed to process_instruction exactly once, with the content of that row,
\* and nothing else has been handed over.
C16_EachRowOnce ==
    app_pc \in {"ended", "raised"} =>
        /\ \A row \in InstructionRows :
              /\ Cardinality(HandedFor(row)) = 1
              /\ \A h \in HandedFor(row) :
                    handed[h].instruction.ticker = instr_sheet[row - 1].TICKER
        /\ \A h \in 1..Len(handed) : handed[h].row_number \in InstructionRows

\* the calls of process_instruction in which an exception was raised
Excepted == {h \in 1..Len(handed) : StatusMessages.exception \in Range(handed[h].status)}

FailedRowNumbers == {failed_log[f].row_number : f \in 1..Len(failed_log)}

\* C17: the failed_rows returned by process_batch name every instruction
\* whose processing raised an exception, and 'All rows processed successfully'
\* is logged only when no instruction failed.
C17_FailuresReported ==
    /\ \A h \in Excepted : handed[h].row_number \in FailedRowNumbers
    /\ all_ok_logged => (Excepted = {} /\ failed_log = <<>>)

(* ------------------------------------------------------------------ *)
(* extra/gtt_core.py: TypeNormalizer and GTTMatcher on two TYPE cells   *)
(* ------------------------------------------------------------------ *)
Pad(n) == [i \in 1..n |-> " "]

TypeWords ==
    {<<"K", "W", "K">>, <<"k", "w", "k">>, <<"B", "U", "Y">>, <<"b", "u", "y">>,
     <<"T", "S", "L">>, <<"t", "s", "l">>, <<"S", "E", "L", "L">>}

\* the TYPE cells: a word between up to MaxPad blanks on either side
TypeCells == {Pad(l) \o w \o Pad(r) : l \in 0..MaxPad, r \in 0..MaxPad, w \in TypeWords}

MInit ==
    /\ nm_pc = "start"
    /\ nm_instr_type \in TypeCells
    /\ nm_data_type \in TypeCells
    /\ nm_norm = <<>>
    /\ nm_match = "not called"
    /\ OldIdle
    /\ RIdle
    /\ NIdle
    /\ KIdle
    /\ JIdle
    /\ UIdle

\* TypeNormalizer.normalize_for_matching of the two cells
Normalize ==
    /\ nm_pc = "start"
    /\ nm_norm' = <<normalize_for_matching(nm_instr_type), normalize_for_matching(nm_data_type)>>
    /\ nm_pc' = "normalized"
    /\ UNCHANGED <<nm_instr_type, nm_data_type, nm_match>>
    /\ UNCHANGED <<oldvars, rvars, nvars, kvars, jvars, uvars>>

\* GTTMatcher.match_for_update of the instruction and the data row that
\* parse_instruction and parse_data_row make of two rows with the same ticker
\* and these TYPE cells
Match ==
    /\ nm_pc = "normalized"
    /\ \E parsed \in {parse_instruction(
                          DictItem(RawRow("NSE:X", nm_instr_type, 1,
                                          <<"U", "P", "D", "A", "T", "E">>)), 2)} :
          /\ parsed # <<>>
          /\ nm_match' =
                IF match_for_update(parsed[1],
                                    parse_data_row([TrackedRow EXCEPT !.type = nm_data_type]))
                THEN "match" ELSE "no match"
    /\ nm_pc' = "matched"
    /\ UNCHANGED <<nm_instr_type, nm_data_type, nm_norm>>
    /\ UNCHANGED <<oldvars, rvars, nvars, kvars, jvars, uvars>>

MNext == Normalize \/ Match

SpecTypeMatch == MInit /\ [][MNext]_vars

\* the two TYPE cells differ at most in letter case and surrounding blanks
SameButCaseAndBlanks == Upper(Strip(nm_instr_type)) = Upper(Strip(nm_data_type))

\* C22: two TYPE strings that differ only in upper/lower case or in leading or
\* trailing blanks normalize to the same value, and an instruction and a data
\* row of the same ticker with such types match each other.
C22_CaseAndBlanksIgnored ==
    (nm_pc = "matched" /\ SameButCaseAndBlanks) =>
        /\ nm_norm[1] = nm_norm[2]
        /\ nm_match = "match"

(* ------------------------------------------------------------------ *)
(* nse_combined_fetcher.py: one call of upload_to_sheets                *)
(* ------------------------------------------------------------------ *)
\* A row of data is a number: 0 the header, k the k-th row of df. A worksheet
\* row holds a row of data, EmptyRow, or StaleRow from an earlier upload.
EmptyRow == 0 - 1

StaleRow == 0 - 2

DataOf(n) == [r \in 1..n |-> r - 1]

BatchSizePool == {0, 2, 12, 20, 200}

ErrorPool ==
    {<<"4", "2", "9">>, <<"Q", "u", "o", "t", "a">>, <<"r", "e", "s", "e", "t">>}

UInit ==
    /\ up_pc = "open"
    /\ up_data \in {DataOf(n) : n \in 1..MaxUploadRows}
    /\ up_initial \in BatchSizePool
    /\ up_sheet \in {<<>>, [r \in 1..Len(up_data) |-> StaleRow]}
    /\ up_batch_size = 200
    /\ up_i = 0
    /\ up_current = <<>>
    /\ up_attempt = 0
    /\ up_calls = 0
    /\ up_shrunk_at = {}
    /\ OldIdle
    /\ RIdle
    /\ NIdle
    /\ KIdle
    /\ JIdle
    /\ MIdle

\* setup_google_sheets, then worksheet.clear() or add_worksheet when the
\* worksheet is not found; an exception of these calls leaves the function
OpenWorksheet ==
    /\ up_pc = "open"
    /\ \E ok \in BOOLEAN :
          IF ok
          THEN /\ up_pc' = "upload"
               /\ up_sheet' = [r \in 1..Len(up_data) |-> EmptyRow]
               /\ up_batch_size' = first_batch_size(up_initial)
          ELSE /\ up_pc' = "failed"
               /\ UNCHANGED <<up_sheet, up_batch_size>>
    /\ UNCHANGED <<up_data, up_initial, up_i, up_current, up_attempt, up_calls, up_shrunk_at>>
    /\ UNCHANGED <<oldvars, rvars, nvars, kvars, jvars, mvars>>

\* one pass of the inner while loop, the first one with the slicing of
\* current_batch before it: worksheet.update of the current batch returns, or
\* raises e (the request may have been applied all the same)
UpdateAttempt ==
    /\ up_pc = "upload"
    /\ up_i < Len(up_data)
    /\ up_attempt < max_attempts
    /\ up_calls' = IF up_attempt = 0 THEN 1 ELSE up_calls + 1
    /\ up_current' = IF up_attempt = 0 THEN current_batch(up_data, up_i, up_batch_size)
                                       ELSE up_current
    /\ \E written \in {worksheet_update(up_sheet, 1 + up_i, up_current')} :
          \/ /\ up_sheet' = written
             /\ up_i' = up_i + up_batch_size
             /\ up_attempt' = 0
             /\ UNCHANGED <<up_batch_size, up_shrunk_at>>
          \/ \E e \in ErrorPool, applied \in BOOLEAN :
                /\ up_sheet' = IF applied THEN written ELSE up_sheet
                /\ up_attempt' = up_attempt + 1
                /\ IF rate_limited(e)
                      THEN /\ up_batch_size' = shrink_batch(up_batch_size)
                           /\ up_shrunk_at' =
                                 IF shrink_batch(up_batch_size) < up_batch_size
                                 THEN up_shrunk_at \cup {up_i} ELSE up_shrunk_at
                      ELSE UNCHANGED <<up_batch_size, up_shrunk_at>>
                /\ UNCHANGED up_i
    /\ UNCHANGED <<up_pc, up_data, up_initial>>
    /\ UNCHANGED <<oldvars, rvars, nvars, kvars, jvars, mvars>>

\* the else branch of the inner while loop
AttemptsExhausted ==
    /\ up_pc = "upload"
    /\ up_i < Len(up_data)
    /\ up_attempt >= max_attempts
    /\ up_pc' = "RuntimeError"
    /\ UNCHANGED <<up_data, up_initial, up_sheet, up_batch_size, up_i, up_current, up_attempt,
                   up_calls, up_shrunk_at>>
    /\ UNCHANGED <<oldvars, rvars, nvars, kvars, jvars, mvars>>

\* the end of the upload loop: the formats are set, which changes no value,
\* and True is returned
FormatAndReturn ==
    /\ up_pc = "upload"
    /\ up_i >= Len(up_data)
    /\ up_pc' = "returned"
    /\ UNCHANGED <<up_data, up_initial, up_sheet, up_batch_size, up_i, up_current, up_attempt,
                   up_calls, up_shrunk_at>>
    /\ UNCHANGED <<oldvars, rvars, nvars, kvars, jvars, mvars>>

UNext == OpenWorksheet \/ UpdateAttempt \/ AttemptsExhausted \/ FormatAndReturn

SpecUpload == UInit /\ [][UNext]_vars

\* sheet row r holds data row r, for every row of data
RowsInPlace == \A r \in 1..Len(up_data) : up_sheet[r] = up_data[r]

\* C21: when upload_to_sheets returns, sheet row r holds data row r for every
\* r in 1..len(data), also after the batch size was reduced in the middle of
\* the upload; worksheet.update is called at most 5 times for a batch, and
\* RuntimeError is raised exactly when the 5 attempts of a batch have failed.
C21_UploadInPlace ==
    [][/\ up_pc' = "returned" => RowsInPlace'
       /\ up_calls' <= max_attempts
       /\ up_pc' = "RuntimeError" <=>
              (up_pc = "upload" /\ up_attempt = max_attempts /\ up_calls = max_attempts)]_vars

\* an upload has returned whose batch size was reduced after the first batch
\* had been written, with rows of the batch in flight beyond the new size
C21_Witness ==
    /\ up_pc = "returned"
    /\ \E k \in up_shrunk_at : k > 0 /\ k + shrink_batch(up_initial) < Len(up_data)
    /\ RowsInPlace

====
